---------------------------- MODULE Spec2Model ----------------------------
(***************************************************************************)
(* Dayflow: the observation pipeline of core/llm_provider.py.              *)
(*                                                                         *)
(*   transcribe_video            frames -> completion -> parse -> overlay  *)
(*   _parse_observations_from_text   model text -> Observation list        *)
(*   _apply_window_records       window records -> time segments -> vote   *)
(*                                                                         *)
(* A response text is a sequence of lexemes (braces, brackets, colon,      *)
(* comma, string and number literals, null, prose words).  Timestamps are  *)
(* whole seconds.                                                          *)
(***************************************************************************)
EXTENDS Integers, Sequences, FiniteSets, TLC

VARIABLES
    pc,              \* position of the call being modelled
    duration,        \* transcribe_video / _apply_window_records argument
    window_records,  \* list of window records handed to the call
    response_text,   \* what _chat_completion returned
    parsed,          \* outcome of _parse_observations_from_text
    obs_in,          \* Observation list passed to _apply_window_records, as passed
    obs_arg,         \* the same list object as the caller sees it now
    time_segments,   \* local time_segments of _apply_window_records
    window_info,     \* segment lines of window_info_text (transcribe_video)
    observations,    \* Observation list after the overlay
    result,          \* what the call returned to its caller
    raised,          \* exception the call propagated to its caller
    requests,        \* completion requests issued by the call
    video,           \* the video file behind video_path
    frames,          \* frames _extract_frames_from_video returned
    context_cards,   \* generate_activity_cards argument
    start_time,      \* anchor: generate_activity_cards / _parse_cards_from_text argument
    context_text,    \* context section of the request of generate_activity_cards
    parsed_cards,    \* outcome of _parse_cards_from_text
    frame_target,    \* max_frames argument of _extract_frames_from_video
    frame_requests,  \* frame indices passed to cap.set, in order
    client_ref,      \* self._client: 0 for None, else the number of a client
    clients,         \* every httpx.AsyncClient created so far: "open" or "closed"
    closing,         \* per task: the client whose aclose() it awaits, 0 for none
    held,            \* per task: the client _get_client handed it, 0 for none
    upd_pc,          \* position of the download thread in _download
    mirror,          \* number of the mirror the loop of _download is at
    attempts,        \* mirrors handed to _download_from_url, with how each ended
    cancelled,       \* self._cancelled
    cancel_seen,     \* the download thread has read self._cancelled as true
    tmp_exists,      \* the .tmp file next to target_path exists
    target_exists,   \* target_path exists
    info_ready,      \* update_info.json exists with ready = true
    completions,     \* success arguments on_complete was invoked with, in order
    chunks_left,     \* chunks the response has yet to deliver
    is_zip,          \* self.is_zip
    storage,         \* the cards storage holds: day -> cards in the order it returns them
    stats_op,        \* the StatsCollector operation called last, with its arguments
    stats_value,     \* what that call returned
    fetches          \* days that call asked storage for, in order

cardVars == << context_cards, start_time, context_text, parsed_cards >>

frameVars == << frame_target, frame_requests >>

clientVars == << client_ref, clients, closing, held >>

updaterVars == << upd_pc, mirror, attempts, cancelled, cancel_seen, tmp_exists, target_exists, info_ready, completions, chunks_left, is_zip >>

statsVars == << storage, stats_op, stats_value, fetches >>

auxVars == << frameVars, clientVars, updaterVars, statsVars >>

providerVars ==
    << pc, duration, window_records, response_text, parsed, obs_in, obs_arg,
       time_segments, window_info, observations, result, raised, requests,
       video, frames, cardVars >>

vars == << providerVars, auxVars >>

----------------------------------------------------------------------------
(* Bounds                                                                  *)

MaxRecords == 3

MaxEntries == 2

MaxContext == 4

MaxTotalFrames == 5

MaxClients == 3

MaxChunks == 2

MaxCards == 2

----------------------------------------------------------------------------
(* Python / JSON values.  Every value is a record of one shape so that any *)
(* two values can be compared.                                             *)
(*   t = "num": n     t = "str": s     t = "null" (Python None)            *)
(*   t = "arr": a = elements     t = "obj": a = <<key, value>> members     *)
(*   t = "text": a = lexemes of a raw response slice (a Python str)        *)

JNum(n) == [t |-> "num", n |-> n, s |-> "", a |-> << >>]

JStr(s) == [t |-> "str", n |-> 0, s |-> s, a |-> << >>]

JNull == [t |-> "null", n |-> 0, s |-> "", a |-> << >>]

JArr(a) == [t |-> "arr", n |-> 0, s |-> "", a |-> a]

JObj(members) == [t |-> "obj", n |-> 0, s |-> "", a |-> members]

JText(lexemes) == [t |-> "text", n |-> 0, s |-> "", a |-> lexemes]

Member(k, v) == [key |-> k, val |-> v]

(* Lexemes of a response text.                                             *)
Lex(k, s, n) == [k |-> k, s |-> s, n |-> n]

Punct(c) == Lex(c, "", 0)

LStr(s) == Lex("str", s, 0)

LNum(n) == Lex("num", "", n)

LNull == Lex("null", "", 0)

Word(s) == Lex("word", s, 0)

Min(a, b) == IF a < b THEN a ELSE b

Max(a, b) == IF a > b THEN a ELSE b

----------------------------------------------------------------------------
(* re.search(r'\{[\s\S]*\}', text): the leftmost '{' and, the star being   *)
(* greedy, the last '}' after it.  No match when either is missing.        *)

BraceOpens(text) == {i \in 1..Len(text) : text[i].k = "{"}

BraceCloses(text) == {i \in 1..Len(text) : text[i].k = "}"}

SetMin(S) == CHOOSE x \in S : \A y \in S : x <= y

SetMax(S) == CHOOSE x \in S : \A y \in S : x >= y

ReSearchGreedy(text) ==
    LET opens == BraceOpens(text)
        first == SetMin(opens)
        closes == IF opens = {} THEN {} ELSE {j \in BraceCloses(text) : j > first}
    IN  IF closes = {}
        THEN [found |-> FALSE, group |-> << >>]
        ELSE [found |-> TRUE, group |-> SubSeq(text, first, SetMax(closes))]

(* json.loads on a lexeme sequence: a recursive-descent parse of one JSON  *)
(* value that must consume the whole input ("Extra data" otherwise).       *)

ParseOk(v, next) == [ok |-> TRUE, val |-> v, next |-> next]

ParseFail == [ok |-> FALSE, val |-> JNull, next |-> 0]

IsLex(toks, i, k) == i <= Len(toks) /\ toks[i].k = k

RECURSIVE ParseValue(_, _)
RECURSIVE ParseElements(_, _, _)
RECURSIVE ParseMembers(_, _, _)

ParseElements(toks, i, acc) ==
    LET r == ParseValue(toks, i)
    IN  IF ~r.ok THEN ParseFail
        ELSE IF IsLex(toks, r.next, ",")
             THEN ParseElements(toks, r.next + 1, Append(acc, r.val))
        ELSE IF IsLex(toks, r.next, "]")
             THEN ParseOk(JArr(Append(acc, r.val)), r.next + 1)
        ELSE ParseFail

ParseMembers(toks, i, acc) ==
    IF ~(IsLex(toks, i, "str") /\ IsLex(toks, i + 1, ":")) THEN ParseFail
    ELSE LET r == ParseValue(toks, i + 2)
             got == Append(acc, Member(toks[i].s, r.val))
         IN  IF ~r.ok THEN ParseFail
             ELSE IF IsLex(toks, r.next, ",")
                  THEN ParseMembers(toks, r.next + 1, got)
             ELSE IF IsLex(toks, r.next, "}")
                  THEN ParseOk(JObj(got), r.next + 1)
             ELSE ParseFail

ParseValue(toks, i) ==
    IF i > Len(toks) THEN ParseFail
    ELSE LET x == toks[i]
         IN  CASE x.k = "num" -> ParseOk(JNum(x.n), i + 1)
               [] x.k = "str" -> ParseOk(JStr(x.s), i + 1)
               [] x.k = "null" -> ParseOk(JNull, i + 1)
               [] x.k = "[" -> IF IsLex(toks, i + 1, "]")
                               THEN ParseOk(JArr(<< >>), i + 2)
                               ELSE ParseElements(toks, i + 1, << >>)
               [] x.k = "{" -> IF IsLex(toks, i + 1, "}")
                               THEN ParseOk(JObj(<< >>), i + 2)
                               ELSE ParseMembers(toks, i + 1, << >>)
               [] OTHER -> ParseFail

JsonLoads(toks) ==
    LET r == ParseValue(toks, 1)
    IN  IF r.ok /\ r.next = Len(toks) + 1
        THEN [ok |-> TRUE, val |-> r.val]
        ELSE [ok |-> FALSE, val |-> JNull]

(* dict.get(key, default): the last member with that key wins.             *)
HasKey(obj, key) == \E i \in 1..Len(obj.a) : obj.a[i].key = key

DictGet(obj, key, default) ==
    IF HasKey(obj, key)
    THEN obj.a[SetMax({i \in 1..Len(obj.a) : obj.a[i].key = key})].val
    ELSE default

(* float(x): a number, or a string that spells one; ValueError for any     *)
(* other string, TypeError for None, lists and dicts.                      *)
NumericStrings == {"0", "1", "2", "9"}

StrToNum(s) == CASE s = "0" -> 0 [] s = "1" -> 1 [] s = "2" -> 2 [] s = "9" -> 9

PyFloat(v) ==
    CASE v.t = "num" -> [exc |-> "none", n |-> v.n]
      [] v.t = "str" -> IF v.s \in NumericStrings
                        THEN [exc |-> "none", n |-> StrToNum(v.s)]
                        ELSE [exc |-> "ValueError", n |-> 0]
      [] OTHER -> [exc |-> "TypeError", n |-> 0]

----------------------------------------------------------------------------
(* _parse_observations_from_text                                           *)

FallbackTextLimit == 500

Observation(start_ts, end_ts, text, app_name, window_title) ==
    [start_ts |-> start_ts, end_ts |-> end_ts, text |-> text,
     app_name |-> app_name, window_title |-> window_title]

Take(seq, n) == SubSeq(seq, 1, Min(Len(seq), n))

(* `for item in items`: a list yields its elements, a dict its keys, a     *)
(* string its characters (here: the string itself when it is not empty);   *)
(* None and numbers are not iterable.                                      *)
PyIter(v) ==
    CASE v.t = "arr" -> [exc |-> "none", seq |-> v.a]
      [] v.t = "obj" -> [exc |-> "none",
                         seq |-> [i \in 1..Len(v.a) |-> JStr(v.a[i].key)]]
      [] v.t = "str" -> [exc |-> "none",
                         seq |-> IF v.s = "" THEN << >> ELSE << v >>]
      [] OTHER -> [exc |-> "TypeError", seq |-> << >>]

(* The body of the loop for one item: Observation(...) or the exception    *)
(* raised while building it (item.get on a non-dict, float() on a value    *)
(* that is no number).                                                     *)
ObservationOfItem(item, dur) ==
    IF item.t # "obj"
    THEN [exc |-> "AttributeError", obs |-> << >>]
    ELSE LET st == PyFloat(DictGet(item, "start_ts", JNum(0)))
             en == PyFloat(DictGet(item, "end_ts", JNum(dur)))
         IN  IF st.exc # "none" THEN [exc |-> st.exc, obs |-> << >>]
             ELSE IF en.exc # "none" THEN [exc |-> en.exc, obs |-> << >>]
             ELSE [exc |-> "none",
                   obs |-> << Observation(st.n, en.n,
                                          DictGet(item, "text", JStr("")),
                                          DictGet(item, "app_name", JNull),
                                          DictGet(item, "window_title", JNull)) >>]

RECURSIVE ObservationsLoop(_, _, _, _)
ObservationsLoop(items, i, dur, acc) ==
    IF i > Len(items) THEN [exc |-> "none", obs |-> acc]
    ELSE LET one == ObservationOfItem(items[i], dur)
         IN  IF one.exc # "none" THEN [exc |-> one.exc, obs |-> << >>]
             ELSE ObservationsLoop(items, i + 1, dur, acc \o one.obs)

FallbackObservation(text, dur) ==
    Observation(0, dur, JText(Take(text, FallbackTextLimit)), JNull, JNull)

(* exc = "none": the list returned; otherwise the exception that escapes   *)
(* (only json.JSONDecodeError is caught).                                  *)
ParseObservationsFromText(text, dur) ==
    LET m == ReSearchGreedy(text)
        data == JsonLoads(m.group)
        items == PyIter(DictGet(data.val, "observations", JArr(<< >>)))
    IN  IF ~m.found THEN [exc |-> "none", obs |-> << >>]
        ELSE IF ~data.ok
             THEN [exc |-> "none", obs |-> << FallbackObservation(text, dur) >>]
        ELSE IF items.exc # "none" THEN [exc |-> items.exc, obs |-> << >>]
        ELSE ObservationsLoop(items.seq, 1, dur, << >>)

----------------------------------------------------------------------------
(* Window records and time segments                                        *)

NoneApp == "<None>"

Truthy(app) == app # NoneApp /\ app # ""

WindowRecord(ts, app, title) ==
    [timestamp |-> ts, app_name |-> app, window_title |-> title]

Segment(start, end, app, title) ==
    [start |-> start, end |-> end, app_name |-> app, window_title |-> title]

SegState(segs, app, title, start) ==
    [segs |-> segs, current_app |-> app, current_title |-> title,
     current_start |-> start]

(* _apply_window_records, lines 315-325: a record opens a new segment when *)
(* its app_name differs from the current one.                              *)
OverlayBoundary(record, st) == record.app_name # st.current_app

(* One iteration of the loop that builds the segments.                     *)
SegStep(record, st, boundary) ==
    IF boundary
    THEN SegState(IF Truthy(st.current_app)
                  THEN Append(st.segs, Segment(st.current_start, record.timestamp,
                                               st.current_app, st.current_title))
                  ELSE st.segs,
                  record.app_name, record.window_title, record.timestamp)
    ELSE st

RECURSIVE OverlaySegLoop(_, _, _)
OverlaySegLoop(records, i, st) ==
    IF i > Len(records) THEN st
    ELSE OverlaySegLoop(records, i + 1,
                        SegStep(records[i], st, OverlayBoundary(records[i], st)))

CloseSegments(st, dur) ==
    IF Truthy(st.current_app)
    THEN Append(st.segs, Segment(st.current_start, dur,
                                 st.current_app, st.current_title))
    ELSE st.segs

TimeSegments(records, dur) ==
    CloseSegments(OverlaySegLoop(records, 1, SegState(<< >>, NoneApp, NoneApp, 0)), dur)

(* transcribe_video, lines 239-258: the segment lines of window_info_text; *)
(* here a record opens a new line when app_name or window_title differs.   *)
SummaryBoundary(record, st) ==
    record.app_name # st.current_app \/ record.window_title # st.current_title

RECURSIVE SummarySegLoop(_, _, _)
SummarySegLoop(records, i, st) ==
    IF i > Len(records) THEN st
    ELSE SummarySegLoop(records, i + 1,
                        SegStep(records[i], st, SummaryBoundary(records[i], st)))

WindowInfoSegments(records, dur) ==
    IF records = << >> THEN << >>
    ELSE CloseSegments(SummarySegLoop(records, 1, SegState(<< >>, NoneApp, NoneApp, 0)), dur)

----------------------------------------------------------------------------
(* The overlay vote of _apply_window_records, lines 331-356                *)

Overlap(obs, seg) ==
    Min(obs.end_ts, seg.end) - Max(obs.start_ts, seg.start)

AppIndex(durs, app) ==
    IF \E k \in 1..Len(durs) : durs[k].app = app
    THEN CHOOSE k \in 1..Len(durs) : durs[k].app = app
    ELSE 0

(* Line 347 with `=` in place of `+`: the last overlap replaces the sum.    *)
AddOverlapOverwrite(durs, seg, amount) ==
    LET k == AppIndex(durs, seg.app_name)
    IN  IF k = 0
        THEN Append(durs, [app |-> seg.app_name, dur |-> amount,
                           title |-> seg.window_title])
        ELSE [durs EXCEPT ![k].dur = amount]

(* app_durations and app_titles as one insertion-ordered list.             *)
AddOverlap(durs, seg, amount) ==
    LET k == AppIndex(durs, seg.app_name)
    IN  IF k = 0
        THEN Append(durs, [app |-> seg.app_name, dur |-> amount,
                           title |-> seg.window_title])
        ELSE [durs EXCEPT ![k].dur = @ + amount]

(* Variant: a segment that merely touches the observation is counted.   *)
RECURSIVE AppDurationsTouching(_, _, _, _)
AppDurationsTouching(obs, segs, i, durs) ==
    IF i > Len(segs) THEN durs
    ELSE AppDurationsTouching(obs, segs, i + 1,
                              IF Overlap(obs, segs[i]) >= 0
                              THEN AddOverlap(durs, segs[i], Overlap(obs, segs[i]))
                              ELSE durs)

RECURSIVE AppDurations(_, _, _, _)
AppDurations(obs, segs, i, durs) ==
    IF i > Len(segs) THEN durs
    ELSE AppDurations(obs, segs, i + 1,
                      IF Overlap(obs, segs[i]) > 0
                      THEN AddOverlap(durs, segs[i], Overlap(obs, segs[i]))
                      ELSE durs)

(* max(app_durations, key=app_durations.get): the first key, in insertion  *)
(* order, whose value no other value exceeds.                              *)
MainApp(durs) ==
    durs[SetMin({k \in 1..Len(durs) :
                    \A j \in 1..Len(durs) : durs[j].dur <= durs[k].dur})]

(* Variant: the winner's window title is written into app_name.          *)
OverlayOneTitleAsApp(obs, segs) ==
    LET durs == AppDurations(obs, segs, 1, << >>)
    IN  IF durs = << >> THEN obs
        ELSE [obs EXCEPT !.app_name = JStr(MainApp(durs).title),
                         !.window_title = JStr(MainApp(durs).title)]

OverlayOne(obs, segs) ==
    LET durs == AppDurations(obs, segs, 1, << >>)
    IN  IF durs = << >> THEN obs
        ELSE [obs EXCEPT !.app_name = JStr(MainApp(durs).app),
                         !.window_title = JStr(MainApp(durs).title)]

ApplyWindowRecords(obs_list, records, dur) ==
    IF records = << >> THEN obs_list
    ELSE [i \in 1..Len(obs_list) |-> OverlayOne(obs_list[i], TimeSegments(records, dur))]

----------------------------------------------------------------------------
(* _parse_cards_from_text.  Category and title literals of the source are  *)
(* written in English: "Other" for the default category of line 493,       *)
(* "Untitled activity" for the default title of line 494.                  *)

DateTime(minutes, tz) == [t |-> "datetime", n |-> minutes, s |-> tz, a |-> << >>]

(* bool(x) of a decoded JSON value *)
PyBool(v) ==
    CASE v.t = "num" -> v.n # 0
      [] v.t = "str" -> v.s # ""
      [] v.t = "arr" -> v.a # << >>
      [] v.t = "obj" -> v.a # << >>
      [] OTHER -> FALSE

(* str.replace("Z", "+00:00") on the strings a response may carry.         *)
ReplaceZ(s) ==
    CASE s = "2024-01-01T11:00:00Z" -> "2024-01-01T11:00:00+00:00"
      [] s = "Zzz" -> "+00:00zz"
      [] OTHER -> s

(* datetime.fromisoformat: minutes of the day 2024-01-01 and the offset,   *)
(* ValueError for a string that is no ISO-8601 timestamp.                  *)
FromIsoFormat(s) ==
    CASE s = "2024-01-01T10:00:00" -> [exc |-> "none", val |-> DateTime(600, "")]
      [] s = "2024-01-01T11:00:00+00:00" -> [exc |-> "none", val |-> DateTime(660, "+00:00")]
      [] s = "2024-01-01T12:00:00" -> [exc |-> "none", val |-> DateTime(720, "")]
      [] OTHER -> [exc |-> "ValueError", val |-> JNull]

(* datetime.fromisoformat(v.replace("Z", "+00:00")): only str has replace  *)
(* with that meaning; a number, list or dict raises inside the inner try.  *)
ParseIsoTime(v) ==
    IF v.t # "str" THEN [exc |-> "AttributeError", val |-> JNull]
    ELSE FromIsoFormat(ReplaceZ(v.s))

(* Variant of lines 457-473: end_time falls back to the anchor as          *)
(* start_time does.                                                        *)
CardTimesEndFromAnchor(item, anchor) ==
    LET st == DictGet(item, "start_time", JNull)
        en == DictGet(item, "end_time", JNull)
    IN  [card_start |-> IF PyBool(st) /\ ParseIsoTime(st).exc = "none"
                        THEN ParseIsoTime(st).val ELSE anchor,
         card_end |-> IF PyBool(en) /\ ParseIsoTime(en).exc = "none"
                      THEN ParseIsoTime(en).val ELSE anchor]

(* lines 457-473: the bare `except` swallows whatever the parse raises.    *)
CardTimes(item, anchor) ==
    LET st == DictGet(item, "start_time", JNull)
        en == DictGet(item, "end_time", JNull)
    IN  [card_start |-> IF PyBool(st)
                        THEN IF ParseIsoTime(st).exc = "none"
                             THEN ParseIsoTime(st).val ELSE anchor
                        ELSE anchor,
         card_end |-> IF PyBool(en)
                      THEN IF ParseIsoTime(en).exc = "none"
                           THEN ParseIsoTime(en).val ELSE JNull
                      ELSE JNull]

AppSite(name, duration_seconds) ==
    [name |-> name, duration_seconds |-> duration_seconds]

Distraction(description, timestamp, duration_seconds) ==
    [description |-> description, timestamp |-> timestamp,
     duration_seconds |-> duration_seconds]

(* lines 476-481 *)
RECURSIVE AppSitesLoop(_, _, _)
AppSitesLoop(apps, i, acc) ==
    IF i > Len(apps) THEN [exc |-> "none", seq |-> acc]
    ELSE IF apps[i].t # "obj" THEN [exc |-> "AttributeError", seq |-> << >>]
    ELSE AppSitesLoop(apps, i + 1,
                      Append(acc, AppSite(DictGet(apps[i], "name", JStr("")),
                                          DictGet(apps[i], "duration_seconds", JNum(0)))))

(* lines 484-490 *)
RECURSIVE DistractionsLoop(_, _, _)
DistractionsLoop(dists, i, acc) ==
    IF i > Len(dists) THEN [exc |-> "none", seq |-> acc]
    ELSE IF dists[i].t # "obj" THEN [exc |-> "AttributeError", seq |-> << >>]
    ELSE DistractionsLoop(dists, i + 1,
                          Append(acc, Distraction(DictGet(dists[i], "description", JStr("")),
                                                  DictGet(dists[i], "timestamp", JNum(0)),
                                                  DictGet(dists[i], "duration_seconds", JNum(0)))))

ActivityCard(category, title, summary, card_start, card_end, app_sites, distractions, score) ==
    [category |-> category, title |-> title, summary |-> summary,
     start_time |-> card_start, end_time |-> card_end, app_sites |-> app_sites,
     distractions |-> distractions, productivity_score |-> score]

(* The body of the loop for one item, lines 456-502.                       *)
CardOfItem(item, anchor) ==
    IF item.t # "obj" THEN [exc |-> "AttributeError", cards |-> << >>]
    ELSE LET times == CardTimes(item, anchor)
             apps == PyIter(DictGet(item, "app_sites", JArr(<< >>)))
             sites == AppSitesLoop(apps.seq, 1, << >>)
             dists == PyIter(DictGet(item, "distractions", JArr(<< >>)))
             distractions == DistractionsLoop(dists.seq, 1, << >>)
             score == PyFloat(DictGet(item, "productivity_score", JNum(0)))
         IN  IF apps.exc # "none" THEN [exc |-> apps.exc, cards |-> << >>]
             ELSE IF sites.exc # "none" THEN [exc |-> sites.exc, cards |-> << >>]
             ELSE IF dists.exc # "none" THEN [exc |-> dists.exc, cards |-> << >>]
             ELSE IF distractions.exc # "none"
                  THEN [exc |-> distractions.exc, cards |-> << >>]
             ELSE IF score.exc # "none" THEN [exc |-> score.exc, cards |-> << >>]
             ELSE [exc |-> "none",
                   cards |-> << ActivityCard(DictGet(item, "category", JStr("Other")),
                                             DictGet(item, "title", JStr("Untitled activity")),
                                             DictGet(item, "summary", JStr("")),
                                             times.card_start, times.card_end,
                                             sites.seq, distractions.seq, score.n) >>]

RECURSIVE CardsLoop(_, _, _, _)
CardsLoop(items, i, anchor, acc) ==
    IF i > Len(items) THEN [exc |-> "none", cards |-> acc]
    ELSE LET one == CardOfItem(items[i], anchor)
         IN  IF one.exc # "none" THEN [exc |-> one.exc, cards |-> << >>]
             ELSE CardsLoop(items, i + 1, anchor, acc \o one.cards)

(* lines 446-507: only json.JSONDecodeError is caught.                     *)
ParseCardsFromText(text, anchor) ==
    LET m == ReSearchGreedy(text)
        data == JsonLoads(m.group)
        items == PyIter(DictGet(data.val, "cards", JArr(<< >>)))
    IN  IF ~m.found THEN [exc |-> "none", cards |-> << >>]
        ELSE IF ~data.ok THEN [exc |-> "none", cards |-> << >>]
        ELSE IF items.exc # "none" THEN [exc |-> items.exc, cards |-> << >>]
        ELSE CardsLoop(items.seq, 1, anchor, << >>)

----------------------------------------------------------------------------
(* Inputs: what the completion service may answer.                         *)

RECURSIVE Render(_)
RECURSIVE RenderElems(_, _)
RECURSIVE RenderMembers(_, _)

RenderElems(a, i) ==
    IF i > Len(a) THEN << >>
    ELSE (IF i > 1 THEN << Punct(",") >> ELSE << >>) \o Render(a[i])
         \o RenderElems(a, i + 1)

RenderMembers(a, i) ==
    IF i > Len(a) THEN << >>
    ELSE (IF i > 1 THEN << Punct(",") >> ELSE << >>)
         \o << LStr(a[i].key), Punct(":") >> \o Render(a[i].val)
         \o RenderMembers(a, i + 1)

Render(v) ==
    CASE v.t = "num" -> << LNum(v.n) >>
      [] v.t = "str" -> << LStr(v.s) >>
      [] v.t = "null" -> << LNull >>
      [] v.t = "arr" -> << Punct("[") >> \o RenderElems(v.a, 1) \o << Punct("]") >>
      [] v.t = "obj" -> << Punct("{") >> \o RenderMembers(v.a, 1) \o << Punct("}") >>

Absent == [t |-> "absent", n |-> 0, s |-> "", a |-> << >>]

OptMember(k, v) == IF v = Absent THEN << >> ELSE << Member(k, v) >>

Entry(st, en, app) ==
    JObj(OptMember("start_ts", st) \o OptMember("end_ts", en)
         \o << Member("text", JStr("edits code")) >> \o OptMember("app_name", app))

StartTsChoices == {Absent, JNum(-1), JNum(2), JStr("abc")}

EndTsChoices == {Absent, JNum(1), JStr("9")}

Entries ==
    {Entry(st, en, JStr("M")) : st \in StartTsChoices, en \in EndTsChoices}
    \cup {Entry(Absent, Absent, Absent), JNum(7)}

EntryLists == UNION {[1..n -> Entries] : n \in 0..MaxEntries}

Payloads ==
    {JObj(<< Member("observations", JArr(es)) >>) : es \in EntryLists}
    \cup {JObj(<< >>), JObj(<< Member("observations", JNull) >>),
          JObj(<< Member("cards", JArr(<< >>)) >>)}

Prose == Word("prose")

(* A payload alone, inside prose, followed by prose that holds a brace,    *)
(* followed by a second object, and cut short.                             *)
TextsOf(p) ==
    {Render(p),
     << Prose >> \o Render(p) \o << Prose >>,
     Render(p) \o << Prose, Punct("}") >>,
     Render(p) \o << Prose >> \o Render(JObj(<< Member("note", JNum(1)) >>)),
     SubSeq(Render(p), 1, Len(Render(p)) - 1)}

ProseTexts ==
    {<< >>, << Prose, Prose >>, << Prose, Punct("{"), Prose >>,
     << Punct("}"), Prose, Punct("{") >>,
     << Prose, Punct("{"), Prose, Punct("}") >>}

ResponseTexts == ProseTexts \cup UNION {TextsOf(p) : p \in Payloads}

(* Inputs: window records and observations.                                *)

Timestamps == {0, 2, 4}

Durations == {4, 5}

Windows == {<<"A", "t1">>, <<"A", "t2">>, <<"B", "t1">>, <<"C", "t1">>}

Records == {WindowRecord(ts, w[1], w[2]) : ts \in Timestamps, w \in Windows}

RecordLists == UNION {[1..n -> Records] : n \in 0..MaxRecords}

PipelineRecordLists ==
    {<< >>,
     << WindowRecord(0, "A", "t1"), WindowRecord(2, "A", "t2"),
        WindowRecord(4, "B", "t1") >>}

ObsSpans == {<<0, 3>>, <<0, 5>>, <<1, 3>>, <<3, 5>>, <<1, 1>>, <<3, 0>>}

ObsOf(sp) == Observation(sp[1], sp[2], JStr("edits code"), JStr("M"), JNull)

ObsLists ==
    {<< >>} \cup {<< ObsOf(sp) >> : sp \in ObsSpans}
    \cup {<< ObsOf(<<1, 3>>), ObsOf(<<0, 5>>) >>}

----------------------------------------------------------------------------
(* Inputs: card payloads, anchors and context cards.                       *)

CardEntry(cat, st, en, score, apps) ==
    JObj(OptMember("category", cat) \o << Member("title", JStr("Write tests")) >>
         \o OptMember("start_time", st) \o OptMember("end_time", en)
         \o OptMember("productivity_score", score) \o OptMember("app_sites", apps))

BaseCategory == JStr("Programming")
BaseStart == JStr("2024-01-01T10:00:00")
BaseEnd == JStr("2024-01-01T12:00:00")
BaseScore == JNum(9)

NamedApps == JArr(<< JObj(<< Member("name", JStr("A")) >>) >>)

(* A well-formed entry, an entry that is no object, and entries whose      *)
(* fields are missing, of another type, or not what the field should hold. *)
CardEntries ==
    {CardEntry(BaseCategory, BaseStart, BaseEnd, BaseScore, Absent),
     JNum(7),
     CardEntry(Absent, Absent, Absent, Absent, Absent),
     CardEntry(JStr("Gaming"), JStr("2024-01-01T11:00:00Z"), Absent, BaseScore, Absent),
     CardEntry(JNull, JStr("Zzz"), JStr("Zzz"), JStr("9"), Absent),
     CardEntry(BaseCategory, JNum(2), JNum(2), BaseScore, Absent),
     CardEntry(BaseCategory, JStr(""), BaseEnd, JStr("abc"), Absent),
     CardEntry(BaseCategory, BaseStart, BaseEnd, JNull, Absent),
     CardEntry(BaseCategory, BaseStart, BaseEnd, BaseScore, NamedApps),
     CardEntry(BaseCategory, BaseStart, BaseEnd, BaseScore, JArr(<< JNum(7) >>)),
     CardEntry(BaseCategory, BaseStart, BaseEnd, BaseScore, JNull)}

CardEntryLists(n) == UNION {[1..k -> CardEntries] : k \in 0..n}

CardPayloads(n) ==
    {JObj(<< Member("cards", JArr(es)) >>) : es \in CardEntryLists(n)}
    \cup {JObj(<< >>), JObj(<< Member("cards", JNull) >>),
          JObj(<< Member("cards", JNum(7)) >>), JObj(<< Member("cards", JStr("abc")) >>)}

(* A payload alone, inside prose, and followed by prose that holds a brace. *)
CardTextsOf(p) ==
    {Render(p),
     << Prose >> \o Render(p) \o << Prose >>,
     Render(p) \o << Prose, Punct("}") >>}

(* Response texts carrying up to n card entries.                           *)
CardTexts(n) ==
    {<< >>, << Prose, Prose >>, << Prose, Punct("{"), Prose, Punct("}") >>}
    \cup UNION {CardTextsOf(p) : p \in CardPayloads(n)}

Anchors == {JNull, DateTime(540, "")}

ContextCard(category, title) ==
    ActivityCard(JStr(category), JStr(title), JStr(""), JNull, JNull, << >>, << >>, 0)

ContextCards ==
    {ContextCard("Programming", "Write tests"), ContextCard("Meeting", "Standup"),
     ContextCard("Rest", "Coffee")}

ContextLists == UNION {[1..n -> ContextCards] : n \in 0..MaxContext}

GenerateObsLists == {<< >>, << ObsOf(<<0, 3>>) >>}

GenerateTexts ==
    {<< >>,
     Render(JObj(<< Member("cards", JNull) >>)),
     << Prose >> \o Render(JObj(<< Member("cards",
            JArr(<< CardEntry(BaseCategory, BaseStart, Absent, BaseScore, Absent) >>)) >>)),
     Render(JObj(<< Member("cards",
            JArr(<< CardEntry(BaseCategory, BaseStart, BaseEnd, BaseScore, Absent),
                    CardEntry(Absent, Absent, BaseEnd, JStr("abc"), Absent) >>)) >>))}

----------------------------------------------------------------------------
(* _extract_frames_from_video.  A video is the file behind video_path:     *)
(* whether it exists, whether cv2 opens it, its frame count and the frames *)
(* cap.read() can deliver.  A frame payload is named by its frame index.   *)

TranscribeMaxFrames == 8

Video(exists, opened, total_frames, readable) ==
    [exists |-> exists, opened |-> opened, total_frames |-> total_frames,
     readable |-> readable]

NoVideo == Video(FALSE, FALSE, 0, {})

(* Variant: range(1, max_frames + 1).                                      *)
FrameIndicesFromOne(total_frames, max_frames) ==
    [i \in 1..max_frames |-> (i * total_frames) \div max_frames]

(* line 150: int(i * total_frames / max_frames) for i in range(max_frames) *)
FrameIndices(total_frames, max_frames) ==
    [i \in 1..max_frames |-> ((i - 1) * total_frames) \div max_frames]

ExtractFramesFromVideo(v, max_frames) ==
    LET Read(idx) == idx \in v.readable
    IN  IF ~v.opened THEN << >>
        ELSE IF v.total_frames = 0 THEN << >>
        ELSE SelectSeq(FrameIndices(v.total_frames, max_frames), Read)

(* lines 152-153: the indices cap.set is called with.                     *)
FrameRequests(v, max_frames) ==
    IF ~v.opened \/ v.total_frames = 0 THEN << >>
    ELSE FrameIndices(v.total_frames, max_frames)

Videos ==
    {NoVideo,
     Video(TRUE, FALSE, 0, {}),
     Video(TRUE, TRUE, 0, {}),
     Video(TRUE, TRUE, 4, {}),
     Video(TRUE, TRUE, 4, 0..3)}

----------------------------------------------------------------------------
(* transcribe_video, one call.                                             *)

NoResponse == << Lex("unset", "", 0) >>

NoParse == [exc |-> "unset", obs |-> << >>]

Idle(at, dur, records, obs) ==
    /\ pc = at
    /\ duration = dur
    /\ window_records = records
    /\ response_text = NoResponse
    /\ parsed = NoParse
    /\ obs_in = obs
    /\ obs_arg = obs
    /\ time_segments = << >>
    /\ window_info = << >>
    /\ observations = << >>
    /\ result = << >>
    /\ raised = "none"
    /\ requests = 0
    /\ frames = << >>

NoContext == [header |-> FALSE, lines |-> << >>]

NoCards == [exc |-> "unset", cards |-> << >>]

NoCardCall ==
    /\ context_cards = << >>
    /\ start_time = JNull
    /\ context_text = NoContext
    /\ parsed_cards = NoCards

FramesIdle ==
    /\ frame_target = 0
    /\ frame_requests = << >>

ClientIdle ==
    /\ client_ref = 0
    /\ clients = << >>
    /\ closing = << >>
    /\ held = << >>

UpdaterIdle ==
    /\ upd_pc = "none"
    /\ mirror = 0
    /\ attempts = << >>
    /\ cancelled = FALSE
    /\ cancel_seen = FALSE
    /\ tmp_exists = FALSE
    /\ target_exists = FALSE
    /\ info_ready = FALSE
    /\ completions = << >>
    /\ chunks_left = 0
    /\ is_zip = FALSE

StatsIdle ==
    /\ storage = << >>
    /\ stats_op = [op |-> "none", s |-> 0, e |-> 0, limit |-> 0]
    /\ stats_value = [n |-> 0, list |-> << >>]
    /\ fetches = << >>

AuxIdle == FramesIdle /\ ClientIdle /\ UpdaterIdle /\ StatsIdle

(* No call of the provider is in progress.                                 *)
ProviderIdle(at) ==
    Idle(at, 0, << >>, << >>) /\ video = NoVideo /\ NoCardCall

Init ==
    \E dur \in Durations, records \in PipelineRecordLists, v \in Videos :
        Idle("start", dur, records, << >>) /\ video = v /\ NoCardCall /\ AuxIdle

(* line 228-229: the video file does not exist.                            *)
VideoMissing ==
    /\ pc = "start"
    /\ ~video.exists
    /\ raised' = "FileNotFoundError"
    /\ pc' = "raised"
    /\ UNCHANGED << auxVars, cardVars, video, frames, duration, window_records, response_text, parsed, obs_in, obs_arg,
                    time_segments, window_info, observations, result, requests >>

(* lines 232-235: no frame could be extracted.                             *)
NoFrames ==
    /\ pc = "start"
    /\ video.exists
    /\ ExtractFramesFromVideo(video, TranscribeMaxFrames) = << >>
    /\ frames' = << >>
    /\ result' = << >>
    /\ pc' = "returned"
    /\ UNCHANGED << auxVars, cardVars, video, duration, window_records, response_text, parsed, obs_in, obs_arg,
                    time_segments, window_info, observations, raised, requests >>

(* lines 237-282: the request is built and sent; the call suspends.        *)
(* Variant: the request is sent without looking at the frames.          *)
SendRequestWithoutFrames ==
    /\ pc = "start"
    /\ video.exists
    /\ frames' = ExtractFramesFromVideo(video, TranscribeMaxFrames)
    /\ window_info' = WindowInfoSegments(window_records, duration)
    /\ requests' = requests + 1
    /\ pc' = "awaiting"
    /\ UNCHANGED << auxVars, cardVars, video, duration, window_records, response_text, parsed, obs_in,
                    obs_arg, time_segments, observations, result, raised >>

SendRequest ==
    /\ pc = "start"
    /\ video.exists
    /\ ExtractFramesFromVideo(video, TranscribeMaxFrames) # << >>
    /\ frames' = ExtractFramesFromVideo(video, TranscribeMaxFrames)
    /\ window_info' = WindowInfoSegments(window_records, duration)
    /\ requests' = requests + 1
    /\ pc' = "awaiting"
    /\ UNCHANGED << auxVars, cardVars, video, duration, window_records, response_text, parsed, obs_in, obs_arg,
                    time_segments, observations, result, raised >>

(* _chat_completion returns the model's text.                              *)
CompletionOk ==
    /\ pc = "awaiting"
    /\ \E text \in ResponseTexts : response_text' = text
    /\ pc' = "responded"
    /\ UNCHANGED << auxVars, cardVars, video, frames, duration, window_records, parsed, obs_in, obs_arg, time_segments,
                    window_info, observations, result, raised, requests >>

(* Variant: the failure of _chat_completion reaches the caller.          *)
CompletionFailPropagates ==
    /\ pc = "awaiting"
    /\ raised' = "ProviderError"
    /\ pc' = "raised"
    /\ UNCHANGED << auxVars, cardVars, video, frames, duration, window_records, response_text, parsed,
                    obs_in, obs_arg, time_segments, window_info, observations, result,
                    requests >>

(* _chat_completion raises; lines 290-292 return [].                       *)
CompletionFail ==
    /\ pc = "awaiting"
    /\ result' = << >>
    /\ pc' = "returned"
    /\ UNCHANGED << auxVars, cardVars, video, frames, duration, window_records, response_text, parsed, obs_in, obs_arg,
                    time_segments, window_info, observations, raised, requests >>

(* line 283 *)
ParseObservations ==
    /\ pc = "responded"
    /\ parsed' = ParseObservationsFromText(response_text, duration)
    /\ pc' = "parsed"
    /\ UNCHANGED << auxVars, cardVars, video, frames, duration, window_records, response_text, obs_in, obs_arg,
                    time_segments, window_info, observations, result, raised, requests >>

(* lines 290-292: whatever _parse_observations_from_text let escape.       *)
ParseRaised ==
    /\ pc = "parsed"
    /\ parsed.exc # "none"
    /\ result' = << >>
    /\ pc' = "returned"
    /\ UNCHANGED << auxVars, cardVars, video, frames, duration, window_records, response_text, parsed, obs_in, obs_arg,
                    time_segments, window_info, observations, raised, requests >>

(* lines 286-287 *)
Overlay ==
    /\ pc = "parsed"
    /\ parsed.exc = "none"
    /\ window_records # << >> /\ parsed.obs # << >>
    /\ obs_in' = parsed.obs
    /\ time_segments' = TimeSegments(window_records, duration)
    /\ observations' = ApplyWindowRecords(parsed.obs, window_records, duration)
    /\ obs_arg' = observations'
    /\ pc' = "overlaid"
    /\ UNCHANGED << auxVars, cardVars, video, frames, duration, window_records, response_text, parsed, window_info,
                    result, raised, requests >>

SkipOverlay ==
    /\ pc = "parsed"
    /\ parsed.exc = "none"
    /\ ~(window_records # << >> /\ parsed.obs # << >>)
    /\ observations' = parsed.obs
    /\ pc' = "overlaid"
    /\ UNCHANGED << auxVars, cardVars, video, frames, duration, window_records, response_text, parsed, obs_in, obs_arg,
                    time_segments, window_info, result, raised, requests >>

(* line 289 *)
ReturnObservations ==
    /\ pc = "overlaid"
    /\ result' = observations
    /\ pc' = "returned"
    /\ UNCHANGED << auxVars, cardVars, video, frames, duration, window_records, response_text, parsed, obs_in, obs_arg,
                    time_segments, window_info, observations, raised, requests >>

Next ==
    \/ VideoMissing
    \/ NoFrames
    \/ SendRequest
    \/ CompletionOk
    \/ CompletionFail
    \/ ParseObservations
    \/ ParseRaised
    \/ Overlay
    \/ SkipOverlay
    \/ ReturnObservations

Spec == Init /\ [][Next]_vars

----------------------------------------------------------------------------
(* _apply_window_records called on its own, on any records and list.       *)

InitWindows ==
    \E dur \in Durations, records \in RecordLists, obs \in ObsLists :
        Idle("overlay_call", dur, records, obs) /\ video = NoVideo /\ NoCardCall /\ AuxIdle

ApplyWindowRecordsCall ==
    /\ pc = "overlay_call"
    /\ time_segments' = IF window_records = << >> THEN << >>
                        ELSE TimeSegments(window_records, duration)
    /\ observations' = ApplyWindowRecords(obs_in, window_records, duration)
    /\ obs_arg' = observations'
    /\ result' = observations'
    /\ pc' = "overlay_done"
    /\ UNCHANGED << auxVars, cardVars, video, frames, duration, window_records, response_text, parsed, obs_in,
                    window_info, raised, requests >>

NextWindows == ApplyWindowRecordsCall

SpecWindows == InitWindows /\ [][NextWindows]_vars

----------------------------------------------------------------------------
(* _parse_cards_from_text called on its own.                               *)

InitCards ==
    \E anchor \in Anchors :
        /\ Idle("cards_call", 0, << >>, << >>)
        /\ video = NoVideo
        /\ context_cards = << >>
        /\ start_time = anchor
        /\ context_text = NoContext
        /\ parsed_cards = NoCards
        /\ AuxIdle

ParseCardsCall ==
    /\ pc = "cards_call"
    /\ \E text \in CardTexts(MaxEntries) :
          /\ response_text' = text
          /\ parsed_cards' = ParseCardsFromText(text, start_time)
    /\ pc' = "cards_done"
    /\ UNCHANGED << auxVars, video, frames, context_cards, start_time, context_text, duration,
                    window_records, parsed, obs_in, obs_arg, time_segments, window_info,
                    observations, result, raised, requests >>

NextCards == ParseCardsCall

SpecCards == InitCards /\ [][NextCards]_vars

----------------------------------------------------------------------------
(* generate_activity_cards, one call.                                      *)

ContextCardLimit == 3

(* seq[-n:] *)
PySliceLast(seq, n) == SubSeq(seq, Max(1, Len(seq) - n + 1), Len(seq))

(* line 398: "- {card.category}: {card.title}" *)
ContextLine(card) == [category |-> card.category, title |-> card.title]

(* Variant: the first three cards are rendered.                            *)
ContextSectionFirstCards(cards) ==
    IF cards = << >> THEN NoContext
    ELSE [header |-> TRUE,
          lines |-> [i \in 1..Len(Take(cards, ContextCardLimit)) |->
                        ContextLine(Take(cards, ContextCardLimit)[i])]]

(* lines 394-398 *)
ContextSection(cards) ==
    IF cards = << >> THEN NoContext
    ELSE [header |-> TRUE,
          lines |-> [i \in 1..Len(PySliceLast(cards, ContextCardLimit)) |->
                        ContextLine(PySliceLast(cards, ContextCardLimit)[i])]]

InitGenerate ==
    \E obs \in GenerateObsLists, cards \in ContextLists, anchor \in Anchors :
        /\ Idle("gen_start", 0, << >>, obs)
        /\ video = NoVideo
        /\ context_cards = cards
        /\ start_time = anchor
        /\ context_text = NoContext
        /\ parsed_cards = NoCards
        /\ AuxIdle

(* lines 379-380 *)
GenerateNoObservations ==
    /\ pc = "gen_start"
    /\ obs_in = << >>
    /\ result' = << >>
    /\ pc' = "gen_returned"
    /\ UNCHANGED << auxVars, cardVars, video, frames, duration, window_records, response_text, parsed,
                    obs_in, obs_arg, time_segments, window_info, observations, raised,
                    requests >>

(* lines 382-409: the request text is built and sent.                      *)
GenerateSendRequest ==
    /\ pc = "gen_start"
    /\ obs_in # << >>
    /\ context_text' = ContextSection(context_cards)
    /\ requests' = requests + 1
    /\ pc' = "gen_awaiting"
    /\ UNCHANGED << auxVars, video, frames, context_cards, start_time, parsed_cards, duration,
                    window_records, response_text, parsed, obs_in, obs_arg, time_segments,
                    window_info, observations, result, raised >>

GenerateCompletionOk ==
    /\ pc = "gen_awaiting"
    /\ \E text \in GenerateTexts : response_text' = text
    /\ pc' = "gen_responded"
    /\ UNCHANGED << auxVars, cardVars, video, frames, duration, window_records, parsed, obs_in, obs_arg,
                    time_segments, window_info, observations, result, raised, requests >>

(* _chat_completion raises; lines 411-413 return [].                       *)
GenerateCompletionFail ==
    /\ pc = "gen_awaiting"
    /\ result' = << >>
    /\ pc' = "gen_returned"
    /\ UNCHANGED << auxVars, cardVars, video, frames, duration, window_records, response_text, parsed,
                    obs_in, obs_arg, time_segments, window_info, observations, raised,
                    requests >>

(* line 410 *)
GenerateParseCards ==
    /\ pc = "gen_responded"
    /\ parsed_cards' = ParseCardsFromText(response_text, start_time)
    /\ pc' = "gen_parsed"
    /\ UNCHANGED << auxVars, video, frames, context_cards, start_time, context_text, duration,
                    window_records, response_text, parsed, obs_in, obs_arg, time_segments,
                    window_info, observations, result, raised, requests >>

(* lines 411-413: whatever _parse_cards_from_text let escape.              *)
GenerateParseRaised ==
    /\ pc = "gen_parsed"
    /\ parsed_cards.exc # "none"
    /\ result' = << >>
    /\ pc' = "gen_returned"
    /\ UNCHANGED << auxVars, cardVars, video, frames, duration, window_records, response_text, parsed,
                    obs_in, obs_arg, time_segments, window_info, observations, raised,
                    requests >>

GenerateReturnCards ==
    /\ pc = "gen_parsed"
    /\ parsed_cards.exc = "none"
    /\ result' = parsed_cards.cards
    /\ pc' = "gen_returned"
    /\ UNCHANGED << auxVars, cardVars, video, frames, duration, window_records, response_text, parsed,
                    obs_in, obs_arg, time_segments, window_info, observations, raised,
                    requests >>

NextGenerate ==
    \/ GenerateNoObservations
    \/ GenerateSendRequest
    \/ GenerateCompletionOk
    \/ GenerateCompletionFail
    \/ GenerateParseCards
    \/ GenerateParseRaised
    \/ GenerateReturnCards

SpecGenerate == InitGenerate /\ [][NextGenerate]_vars

(* Either call of the provider.                                            *)
InitProvider == Init \/ InitGenerate

NextProvider == Next \/ NextGenerate

SpecProvider == InitProvider /\ [][NextProvider]_vars

----------------------------------------------------------------------------
(* _extract_frames_from_video called on its own.                           *)

FrameTargets == {1, 3, 8, 10}

Readables(total) == {{}, 0..(total - 1), {i \in 0..(total - 1) : i % 2 = 0}}

FrameVideos ==
    UNION {{Video(TRUE, o, t, r) : o \in BOOLEAN, r \in Readables(t)} :
              t \in 0..MaxTotalFrames}

InitFrames ==
    \E v \in FrameVideos, k \in FrameTargets :
        /\ Idle("frames_call", 0, << >>, << >>) /\ NoCardCall
        /\ video = v
        /\ frame_target = k
        /\ frame_requests = << >>
        /\ ClientIdle /\ UpdaterIdle /\ StatsIdle

ExtractFramesCall ==
    /\ pc = "frames_call"
    /\ frame_requests' = FrameRequests(video, frame_target)
    /\ frames' = ExtractFramesFromVideo(video, frame_target)
    /\ pc' = "frames_done"
    /\ UNCHANGED << clientVars, updaterVars, statsVars, cardVars, video, frame_target, duration, window_records, response_text,
                    parsed, obs_in, obs_arg, time_segments, window_info, observations,
                    result, raised, requests >>

NextFrames == ExtractFramesCall

SpecFrames == InitFrames /\ [][NextFrames]_vars

----------------------------------------------------------------------------
(* _get_client and close of one provider, called by concurrent tasks of    *)
(* one event loop.  A task runs without interruption up to its next await; *)
(* the only await is the one on aclose() in close.  aclose() marks the     *)
(* client closed before it first suspends.                                 *)

ClientTasks == {1, 2, 3}

InitClient ==
    /\ ProviderIdle("client")
    /\ FramesIdle /\ UpdaterIdle /\ StatsIdle
    /\ client_ref = 0
    /\ clients = << >>
    /\ closing = [t \in ClientTasks |-> 0]
    /\ held = [t \in ClientTasks |-> 0]

(* self._client is a client whose is_closed is false.                     *)
LiveClient == client_ref # 0 /\ clients[client_ref] = "open"

(* lines 113-118, no await inside; the caller (line 182) keeps the client  *)
(* it was handed while it awaits client.post.                              *)
GetClient(t) ==
    /\ closing[t] = 0 /\ held[t] = 0
    /\ IF LiveClient
       THEN /\ held' = [held EXCEPT ![t] = client_ref]
            /\ UNCHANGED << client_ref, clients >>
       ELSE /\ Len(clients) < MaxClients
            /\ clients' = Append(clients, "open")
            /\ client_ref' = Len(clients) + 1
            /\ held' = [held EXCEPT ![t] = Len(clients) + 1]
    /\ UNCHANGED << providerVars, frameVars, updaterVars, statsVars, closing >>

(* lines 189-195: the request made with the client in hand is over.        *)
PostDone(t) ==
    /\ held[t] # 0
    /\ held' = [held EXCEPT ![t] = 0]
    /\ UNCHANGED << providerVars, frameVars, updaterVars, statsVars, client_ref, clients, closing >>

(* lines 122-123: the condition holds and the task suspends in aclose().   *)
CloseBegin(t) ==
    /\ closing[t] = 0 /\ held[t] = 0
    /\ LiveClient
    /\ clients' = [clients EXCEPT ![client_ref] = "closed"]
    /\ closing' = [closing EXCEPT ![t] = client_ref]
    /\ UNCHANGED << providerVars, frameVars, updaterVars, statsVars, client_ref, held >>

(* line 124, after aclose() returned *)
CloseEnd(t) ==
    /\ closing[t] # 0
    /\ client_ref' = 0
    /\ closing' = [closing EXCEPT ![t] = 0]
    /\ UNCHANGED << providerVars, frameVars, updaterVars, statsVars, clients, held >>

NextClient ==
    \E t \in ClientTasks :
        GetClient(t) \/ PostDone(t) \/ CloseBegin(t) \/ CloseEnd(t)

SpecClient == InitClient /\ [][NextClient]_vars

----------------------------------------------------------------------------
(* core/updater.py: one UpdateDownloader run.  The download thread runs    *)
(* _download; any other thread may call cancel() at any moment.            *)

NumMirrors == 4

Attempt(m, how) == [mirror |-> m, result |-> how]

InitUpdater ==
    \E zip \in BOOLEAN, old \in BOOLEAN :
        /\ ProviderIdle("updater")
        /\ FramesIdle /\ ClientIdle /\ StatsIdle
        /\ upd_pc = "start"
        /\ mirror = 0
        /\ attempts = << >>
        /\ cancelled = FALSE
        /\ cancel_seen = FALSE
        /\ tmp_exists = FALSE
        /\ target_exists = old
        /\ info_ready = FALSE
        /\ completions = << >>
        /\ chunks_left = 0
        /\ is_zip = zip

otherVars == << providerVars, frameVars, clientVars, statsVars >>

(* lines 161-163 *)
Cancel ==
    /\ ~cancelled
    /\ cancelled' = TRUE
    /\ UNCHANGED << otherVars, upd_pc, mirror, attempts, cancel_seen, tmp_exists,
                    target_exists, info_ready, completions, chunks_left, is_zip >>

(* lines 167-169 raise; lines 211-214 report the failure.                  *)
MkdirFails ==
    /\ upd_pc = "start"
    /\ completions' = Append(completions, FALSE)
    /\ upd_pc' = "done"
    /\ UNCHANGED << otherVars, mirror, attempts, cancelled, cancel_seen, tmp_exists,
                    target_exists, info_ready, chunks_left, is_zip >>

MkdirOk ==
    /\ upd_pc = "start"
    /\ mirror' = 1
    /\ upd_pc' = "loop_top"
    /\ UNCHANGED << otherVars, attempts, cancelled, cancel_seen, tmp_exists,
                    target_exists, info_ready, completions, chunks_left, is_zip >>

(* lines 177-178 *)
CancelSeenAtTop ==
    /\ upd_pc = "loop_top" /\ mirror <= NumMirrors
    /\ cancelled
    /\ cancel_seen' = TRUE
    /\ upd_pc' = "done"
    /\ UNCHANGED << otherVars, mirror, attempts, cancelled, tmp_exists, target_exists,
                    info_ready, completions, chunks_left, is_zip >>

(* lines 180-189: _download_from_url is called for the mirror.             *)
TryMirror ==
    /\ upd_pc = "loop_top" /\ mirror <= NumMirrors
    /\ ~cancelled
    /\ attempts' = Append(attempts, Attempt(mirror, "running"))
    /\ upd_pc' = "request"
    /\ UNCHANGED << otherVars, mirror, cancelled, cancel_seen, tmp_exists, target_exists,
                    info_ready, completions, chunks_left, is_zip >>

(* The loop is exhausted: lines 206-208.                                   *)
LoopExhausted ==
    /\ upd_pc = "loop_top" /\ mirror > NumMirrors
    /\ completions' = Append(completions, FALSE)
    /\ upd_pc' = "done"
    /\ UNCHANGED << otherVars, mirror, attempts, cancelled, cancel_seen, tmp_exists,
                    target_exists, info_ready, chunks_left, is_zip >>

NextMirrorSkipping(how) ==
    /\ attempts' = [attempts EXCEPT ![Len(attempts)].result = how]
    /\ mirror' = mirror + 2
    /\ upd_pc' = "loop_top"

(* What ends the iteration for a mirror and moves the loop to the next.    *)
NextMirror(how) ==
    /\ attempts' = [attempts EXCEPT ![Len(attempts)].result = how]
    /\ mirror' = mirror + 1
    /\ upd_pc' = "loop_top"

(* lines 221-222 raise (connection, HTTP status) or open() of line 227     *)
(* does; 248-250 remove the .tmp file, 201-204 go on to the next mirror.   *)
RequestFails ==
    /\ upd_pc = "request"
    /\ tmp_exists' = FALSE
    /\ NextMirror("failed")
    /\ UNCHANGED << otherVars, cancelled, cancel_seen, target_exists, info_ready,
                    completions, chunks_left, is_zip >>

(* lines 221-227: the response is open and the .tmp file created.          *)
RequestOk ==
    /\ upd_pc = "request"
    /\ tmp_exists' = TRUE
    /\ \E n \in 0..MaxChunks : chunks_left' = n
    /\ upd_pc' = "streaming"
    /\ UNCHANGED << otherVars, mirror, attempts, cancelled, cancel_seen, target_exists,
                    info_ready, completions, is_zip >>

(* lines 228-237, no cancellation seen *)
WriteChunk ==
    /\ upd_pc = "streaming" /\ chunks_left > 0
    /\ ~cancelled
    /\ chunks_left' = chunks_left - 1
    /\ UNCHANGED << otherVars, upd_pc, mirror, attempts, cancelled, cancel_seen,
                    tmp_exists, target_exists, info_ready, completions, is_zip >>

(* lines 229-231: the .tmp file is removed and False returned, so line 190 *)
(* falls through to the next iteration.  Where unlink of the still open    *)
(* file raises instead, 248-250 remove it and 201-204 continue the loop:   *)
(* the same state.                                                         *)
CancelSeenBetweenChunks ==
    /\ upd_pc = "streaming" /\ chunks_left > 0
    /\ cancelled
    /\ cancel_seen' = TRUE
    /\ tmp_exists' = FALSE
    /\ NextMirror("cancelled")
    /\ UNCHANGED << otherVars, cancelled, target_exists, info_ready, completions,
                    chunks_left, is_zip >>

(* iter_bytes, f.write or the rename of 240-243 raises.                    *)
DownloadFails ==
    /\ upd_pc = "streaming"
    /\ tmp_exists' = FALSE
    /\ NextMirror("failed")
    /\ UNCHANGED << otherVars, cancelled, cancel_seen, target_exists, info_ready,
                    completions, chunks_left, is_zip >>

(* lines 239-244: every chunk is written, .tmp becomes target_path.        *)
FinishDownload ==
    /\ upd_pc = "streaming" /\ chunks_left = 0
    /\ tmp_exists' = FALSE
    /\ target_exists' = TRUE
    /\ upd_pc' = IF is_zip THEN "extract" ELSE "save"
    /\ UNCHANGED << otherVars, mirror, attempts, cancelled, cancel_seen, info_ready,
                    completions, chunks_left, is_zip >>

(* lines 192-193, 252-296: the archive is unpacked and removed.            *)
ExtractOk ==
    /\ upd_pc = "extract"
    /\ target_exists' = FALSE
    /\ upd_pc' = "save"
    /\ UNCHANGED << otherVars, mirror, attempts, cancelled, cancel_seen, tmp_exists,
                    info_ready, completions, chunks_left, is_zip >>

(* _extract_zip raises (bad archive, no Dayflow.exe inside).               *)
ExtractFails ==
    /\ upd_pc = "extract"
    /\ NextMirror("failed")
    /\ UNCHANGED << otherVars, cancelled, cancel_seen, tmp_exists, target_exists,
                    info_ready, completions, chunks_left, is_zip >>

(* lines 196, 298-308 *)
SaveUpdateInfo ==
    /\ upd_pc = "save"
    /\ info_ready' = TRUE
    /\ upd_pc' = "complete"
    /\ UNCHANGED << otherVars, mirror, attempts, cancelled, cancel_seen, tmp_exists,
                    target_exists, completions, chunks_left, is_zip >>

(* write_text of line 307 raises.                                          *)
SaveUpdateInfoFails ==
    /\ upd_pc = "save"
    /\ NextMirror("failed")
    /\ UNCHANGED << otherVars, cancelled, cancel_seen, tmp_exists, target_exists,
                    info_ready, completions, chunks_left, is_zip >>

(* lines 198-200 *)
CompleteOk ==
    /\ upd_pc = "complete"
    /\ completions' = Append(completions, TRUE)
    /\ attempts' = [attempts EXCEPT ![Len(attempts)].result = "ok"]
    /\ upd_pc' = "done"
    /\ UNCHANGED << otherVars, mirror, cancelled, cancel_seen, tmp_exists, target_exists,
                    info_ready, chunks_left, is_zip >>

(* lines 348-357 *)
HasPendingUpdate == info_ready

NextUpdater ==
    \/ Cancel
    \/ MkdirFails
    \/ MkdirOk
    \/ CancelSeenAtTop
    \/ TryMirror
    \/ LoopExhausted
    \/ RequestFails
    \/ RequestOk
    \/ WriteChunk
    \/ CancelSeenBetweenChunks
    \/ DownloadFails
    \/ FinishDownload
    \/ ExtractOk
    \/ ExtractFails
    \/ SaveUpdateInfo
    \/ SaveUpdateInfoFails
    \/ CompleteOk

SpecUpdater == InitUpdater /\ [][NextUpdater]_vars

----------------------------------------------------------------------------
(* core/stats_collector.py.  A moment is a count of 10-second steps since  *)
(* 00:00 of day 1, a date is a day number; a duration in minutes is kept   *)
(* as its count of sixths of a minute, a number with one decimal as its    *)
(* count of tenths.                                                        *)

NoTime == 0 - 1

DayOf(moment) == moment \div 8640 + 1

HourOf(moment) == (moment % 8640) \div 360

MinuteOf(moment) == (moment % 360) \div 6

(* card.duration_minutes, in sixths of a minute *)
DurationSixths(card) ==
    IF card.start_time = NoTime \/ card.end_time = NoTime THEN 0
    ELSE card.end_time - card.start_time

(* storage.get_cards_for_date(dt) *)
GetCardsForDate(st, day) == IF day \in DOMAIN st THEN st[day] ELSE << >>

(* int(x) of x = num / den, den > 0: towards zero *)
PyInt(num, den) == IF num >= 0 THEN num \div den ELSE 0 - ((0 - num) \div den)

(* round(x, 1) of x = num / den, den > 0, in tenths: halves go to the even *)
(* neighbour.                                                              *)
Round1(num, den) ==
    LET q == (10 * num) \div den
        r == (10 * num) % den
    IN  IF 2 * r < den THEN q
        ELSE IF 2 * r > den THEN q + 1
        ELSE IF q % 2 = 0 THEN q ELSE q + 1

(* lines 32-41 *)
RECURSIVE CardsInRange(_, _, _)
CardsInRange(st, start_date, end_date) ==
    IF start_date > end_date THEN << >>
    ELSE GetCardsForDate(st, start_date) \o CardsInRange(st, start_date + 1, end_date)

RECURSIVE DaysInRange(_, _)
DaysInRange(start_date, end_date) ==
    IF start_date > end_date THEN << >>
    ELSE << start_date >> \o DaysInRange(start_date + 1, end_date)

(* sum(f(card) for card in cards if keep(card)) *)
RECURSIVE SumSeq(_)
SumSeq(values) == IF values = << >> THEN 0 ELSE Head(values) + SumSeq(Tail(values))

SumOver(cards, f(_), keep(_)) ==
    SumSeq([i \in 1..Len(cards) |-> IF keep(cards[i]) THEN f(cards[i]) ELSE 0])

AnyCard(card) == TRUE

WeightedEqually(card) == card.productivity_score

(* card.productivity_score * duration, lines 80 and 175 *)
Weighted(card) == card.productivity_score * DurationSixths(card)

(* lines 54-56 *)
TotalDuration(cards) == PyInt(SumOver(cards, DurationSixths, AnyCard), 6)

PositiveDuration(card) == DurationSixths(card) > 0

(* lines 70-86 *)
AvgProductivity(cards) ==
    LET total_duration == SumOver(cards, DurationSixths, PositiveDuration)
        total_weighted_score == SumOver(cards, Weighted, PositiveDuration)
    IN  IF cards = << >> THEN 0
        ELSE IF total_duration = 0 THEN 0
        ELSE Round1(total_weighted_score, total_duration)

DeepWorkAbove(card) == card.productivity_score > 80

(* line 102 *)
DeepWork(card) == card.productivity_score >= 80

(* lines 99-105 *)
DeepWorkDuration(cards) == PyInt(SumOver(cards, DurationSixths, DeepWork), 6)

(* Variant of line 176: the end hour takes the card.                       *)
HourlyBucketByEnd(card, hour) ==
    /\ card.start_time # NoTime /\ card.end_time # NoTime
    /\ HourOf(card.end_time) = hour

(* lines 168-176: the cards that go to the bucket of an hour *)
HourlyBucket(card, hour) ==
    /\ card.start_time # NoTime /\ card.end_time # NoTime
    /\ HourOf(card.start_time) = hour

(* lines 166-194 *)
HourlyEfficiency(cards) ==
    [i \in 1..24 |->
        LET InBucket(card) == HourlyBucket(card, i - 1)
            bucket_duration == SumOver(cards, DurationSixths, InBucket)
            score_sum == SumOver(cards, Weighted, InBucket)
        IN  [hour |-> i - 1,
             score |-> IF bucket_duration > 0 THEN Round1(score_sum, bucket_duration) ELSE 0,
             duration |-> Round1(bucket_duration, 6)]]

(* sorted(seq, key = key): ascending, equal keys in their former order     *)
StableSort(seq, key(_)) ==
    LET Rank(i) ==
            Cardinality({j \in 1..Len(seq) :
                            \/ key(seq[j]) < key(seq[i])
                            \/ key(seq[j]) = key(seq[i]) /\ j < i}) + 1
    IN  [p \in 1..Len(seq) |-> seq[CHOOSE i \in 1..Len(seq) : Rank(i) = p]]

(* d[name] = d.get(name, 0) + amount on a dict kept as its items in        *)
(* insertion order                                                         *)
DictAdd(items, name, amount) ==
    IF \E i \in 1..Len(items) : items[i].name = name
    THEN [i \in 1..Len(items) |->
            IF items[i].name = name
            THEN [name |-> name, amount |-> items[i].amount + amount]
            ELSE items[i]]
    ELSE Append(items, [name |-> name, amount |-> amount])

RECURSIVE DictAddAll(_, _)
DictAddAll(items, additions) ==
    IF additions = << >> THEN items
    ELSE DictAddAll(DictAdd(items, Head(additions).name, Head(additions).amount),
                    Tail(additions))

RECURSIVE Concat(_)
Concat(seqs) == IF seqs = << >> THEN << >> ELSE Head(seqs) \o Concat(Tail(seqs))

NegAmount(item) == 0 - item.amount

(* lines 251-256: minutes per application, kept in seconds *)
AppDurationDict(cards) ==
    LET sites == Concat([i \in 1..Len(cards) |-> cards[i].app_sites])
    IN  DictAddAll(<< >>, [i \in 1..Len(sites) |->
                              [name |-> sites[i].name, amount |-> sites[i].duration_seconds]])

(* lines 258-273 *)
TopApplications(cards, limit) ==
    LET app_duration == AppDurationDict(cards)
        total_duration == SumSeq([i \in 1..Len(app_duration) |-> app_duration[i].amount])
        sorted_apps == Take(StableSort(app_duration, NegAmount), limit)
    IN  [i \in 1..Len(sorted_apps) |->
            [name |-> sorted_apps[i].name,
             duration |-> Round1(sorted_apps[i].amount, 60),
             percentage |-> IF total_duration > 0
                            THEN Round1(100 * sorted_apps[i].amount, total_duration)
                            ELSE 0]]

(* lines 14-23 and the .get of lines 145, 300: "other" stands for the key   *)
(* of the last entry.                                                      *)
CategoryColor(category) ==
    CASE category = "work" -> "#7c3aed"
      [] category = "study" -> "#3b82f6"
      [] category = "coding" -> "#10b981"
      [] category = "meeting" -> "#f59e0b"
      [] category = "fun" -> "#ef4444"
      [] category = "social" -> "#ec4899"
      [] category = "rest" -> "#6b7280"
      [] OTHER -> "#8b5cf6"

(* card.category or the last key *)
CategoryOr(card) == IF card.category = "" THEN "other" ELSE card.category

(* lines 131-148 *)
CategoryDistribution(cards) ==
    LET category_duration ==
            DictAddAll(<< >>, [i \in 1..Len(cards) |->
                                  [name |-> CategoryOr(cards[i]),
                                   amount |-> DurationSixths(cards[i])]])
        sorted_items == StableSort(category_duration, NegAmount)
    IN  [i \in 1..Len(sorted_items) |->
            [name |-> sorted_items[i].name,
             value |-> Round1(sorted_items[i].amount, 6),
             color |-> CategoryColor(sorted_items[i].name)]]

(* lines 208-232, for the day i - 7 days before the last *)
WeeklyTrend(st, end_date) ==
    [i \in 1..7 |->
        LET target_date == end_date - (7 - i)
            cards == GetCardsForDate(st, target_date)
            total_duration == SumOver(cards, DurationSixths, AnyCard)
            weighted_score == SumOver(cards, Weighted, AnyCard)
        IN  [date |-> target_date,
             weekday |-> target_date % 7,
             duration |-> Round1(total_duration, 6),
             score |-> IF total_duration > 0
                       THEN Round1(weighted_score, total_duration) ELSE 0]]

(* line 289: a card without start_time sorts as datetime.min, before all   *)
StartKey(card) == card.start_time

SortedByStart(cards) == StableSort(cards, StartKey)

(* strftime("%H:%M") and strftime("%Y-%m-%d"), "" for no moment *)
HourMinute(moment) == IF moment = NoTime THEN << >> ELSE << HourOf(moment), MinuteOf(moment) >>

Date(moment) == IF moment = NoTime THEN << >> ELSE << DayOf(moment) >>

(* lines 292-308 *)
ActivityRecord(card) ==
    [start |-> HourMinute(card.start_time),
     end |-> HourMinute(card.end_time),
     date |-> Date(card.start_time),
     category |-> CategoryOr(card),
     category_color |-> CategoryColor(card.category),
     title |-> card.title,
     summary |-> card.summary,
     score |-> card.productivity_score,
     duration |-> Round1(DurationSixths(card), 6),
     main_app |-> IF card.app_sites # << >> THEN card.app_sites[1].name ELSE "",
     apps |-> [i \in 1..Len(card.app_sites) |-> card.app_sites[i].name]]

ActivitiesUnsorted(cards) ==
    [i \in 1..Len(cards) |-> ActivityRecord(cards[i])]

(* lines 286-310 *)
Activities(cards) ==
    LET sorted_cards == SortedByStart(cards)
    IN  [i \in 1..Len(sorted_cards) |-> ActivityRecord(sorted_cards[i])]

StorageSortedInPlace(st, start_date, end_date) ==
    [day \in DOMAIN st |->
        IF start_date <= day /\ day <= end_date THEN SortedByStart(st[day]) ELSE st[day]]

(* lines 33, 38, 289: cards is a list of its own that extend fills, so     *)
(* cards.sort orders that list and the lists storage returned stay as      *)
(* they were.                                                              *)
StorageAfterSort(st, start_date, end_date) == st

StatCard(title, category, card_start, card_end, score, app_sites) ==
    ActivityCard(category, title, "", card_start, card_end, app_sites, << >>, score)

(* Cards of one hour with scores 100 and 0, a card over midnight with      *)
(* score 80, a card of 30 minutes 20 seconds with score 79, cards without  *)
(* start or end, a card that ends 20 seconds before it starts, and a card  *)
(* of day 2.                                                               *)
StatCards ==
    {StatCard("A", "coding", 3240, 3600, 100, << AppSite("Code", 1800), AppSite("Chrome", 600) >>),
     StatCard("B", "work", 3600, 3960, 0, << AppSite("Chrome", 1200) >>),
     StatCard("C", "social", 8460, 8820, 80, << AppSite("Slack", 100) >>),
     StatCard("D", "coding", 3240, 3422, 79, << >>),
     StatCard("E", "", NoTime, 3600, 100, << AppSite("Mail", 90) >>),
     StatCard("F", "rest", 3600, 3598, 80, << >>),
     StatCard("G", "reading", 3960, NoTime, 90, << >>),
     StatCard("H", "coding", 11880, 12240, 100, << AppSite("Code", 3600) >>)}

StatDays == {1, 2}

TopLimits == {1, 2}

InjectiveSeqs(S, n) ==
    UNION {{q \in [1..k -> S] : \A i, j \in 1..k : q[i] = q[j] => i = j} : k \in 0..n}

(* What storage may hold: at most n cards, none twice, a card that has a   *)
(* start_time under the day it starts on.                                  *)
Storages(n) ==
    {st \in [StatDays -> InjectiveSeqs(StatCards, n)] :
        /\ SumSeq([d \in 1..Cardinality(StatDays) |-> Len(st[d])]) <= n
        /\ \A d \in StatDays : \A i \in 1..Len(st[d]) :
              /\ st[d][i].start_time # NoTime => DayOf(st[d][i].start_time) = d
              /\ \A d2 \in StatDays \ {d} : \A j \in 1..Len(st[d2]) : st[d2][j] # st[d][i]}

InitStats ==
    \E st \in Storages(MaxCards) :
        /\ ProviderIdle("stats")
        /\ FramesIdle /\ ClientIdle /\ UpdaterIdle
        /\ storage = st
        /\ stats_op = [op |-> "none", s |-> 0, e |-> 0, limit |-> 0]
        /\ stats_value = [n |-> 0, list |-> << >>]
        /\ fetches = << >>

(* A call returns: what it was, what it gave, which days it fetched.       *)
Returned(op, start_date, end_date, limit, n, list, days) ==
    /\ pc = "stats"
    /\ stats_op' = [op |-> op, s |-> start_date, e |-> end_date, limit |-> limit]
    /\ stats_value' = [n |-> n, list |-> list]
    /\ fetches' = days
    /\ UNCHANGED << providerVars, frameVars, clientVars, updaterVars >>

(* lines 43-56 *)
GetTotalDuration ==
    \E s \in StatDays, e \in StatDays :
        /\ Returned("total_duration", s, e, 0,
                    TotalDuration(CardsInRange(storage, s, e)), << >>, DaysInRange(s, e))
        /\ storage' = storage

(* lines 58-86 *)
GetAvgProductivity ==
    \E s \in StatDays, e \in StatDays :
        /\ Returned("avg_productivity", s, e, 0,
                    AvgProductivity(CardsInRange(storage, s, e)), << >>, DaysInRange(s, e))
        /\ storage' = storage

(* lines 88-105 *)
GetDeepWorkDuration ==
    \E s \in StatDays, e \in StatDays :
        /\ Returned("deep_work_duration", s, e, 0,
                    DeepWorkDuration(CardsInRange(storage, s, e)), << >>, DaysInRange(s, e))
        /\ storage' = storage

(* lines 107-119 *)
GetActivityCount ==
    \E s \in StatDays, e \in StatDays :
        /\ Returned("activity_count", s, e, 0,
                    Len(CardsInRange(storage, s, e)), << >>, DaysInRange(s, e))
        /\ storage' = storage

(* lines 121-150 *)
GetCategoryDistribution ==
    \E s \in StatDays, e \in StatDays :
        /\ Returned("category_distribution", s, e, 0, 0,
                    CategoryDistribution(CardsInRange(storage, s, e)), DaysInRange(s, e))
        /\ storage' = storage

(* lines 152-196 *)
GetHourlyEfficiency ==
    \E target_date \in StatDays :
        /\ Returned("hourly_efficiency", target_date, target_date, 0, 0,
                    HourlyEfficiency(GetCardsForDate(storage, target_date)),
                    << target_date >>)
        /\ storage' = storage

(* lines 198-234 *)
GetWeeklyTrend ==
    \E end_date \in StatDays :
        /\ Returned("weekly_trend", end_date - 6, end_date, 0, 0,
                    WeeklyTrend(storage, end_date), DaysInRange(end_date - 6, end_date))
        /\ storage' = storage

(* lines 236-273 *)
GetTopApplications ==
    \E s \in StatDays, e \in StatDays, limit \in TopLimits :
        /\ Returned("top_applications", s, e, limit, 0,
                    TopApplications(CardsInRange(storage, s, e), limit), DaysInRange(s, e))
        /\ storage' = storage

(* lines 275-310 *)
GetActivities ==
    \E s \in StatDays, e \in StatDays :
        /\ Returned("activities", s, e, 0, 0,
                    Activities(CardsInRange(storage, s, e)), DaysInRange(s, e))
        /\ storage' = StorageAfterSort(storage, s, e)

NextStats ==
    \/ GetTotalDuration
    \/ GetAvgProductivity
    \/ GetDeepWorkDuration
    \/ GetActivityCount
    \/ GetCategoryDistribution
    \/ GetHourlyEfficiency
    \/ GetWeeklyTrend
    \/ GetTopApplications
    \/ GetActivities

SpecStats == InitStats /\ [][NextStats]_vars

----------------------------------------------------------------------------
(* Properties of _parse_observations_from_text and transcribe_video        *)

(* The payload the response holds, as the parser locates it.               *)
LocatedPayload(text) ==
    LET m == ReSearchGreedy(text)
    IN  IF m.found THEN JsonLoads(m.group) ELSE [ok |-> FALSE, val |-> JNull]

(* The first balanced {...} object of a text: from the first '{' to the    *)
(* '}' that closes it.                                                     *)
RECURSIVE BalancedEnd(_, _, _)
BalancedEnd(text, j, depth) ==
    IF j > Len(text) THEN 0
    ELSE LET d == CASE text[j].k = "{" -> depth + 1
                    [] text[j].k = "}" -> depth - 1
                    [] OTHER -> depth
         IN  IF d = 0 THEN j ELSE BalancedEnd(text, j + 1, d)

FirstBalancedObject(text) ==
    LET opens == BraceOpens(text)
        first == SetMin(opens)
        last == IF opens = {} THEN 0 ELSE BalancedEnd(text, first, 0)
    IN  IF last = 0
        THEN [found |-> FALSE, group |-> << >>, last |-> 0]
        ELSE [found |-> TRUE, group |-> SubSeq(text, first, last), last |-> last]

HasBrace(text) == \E i \in 1..Len(text) : text[i].k \in {"{", "}"}

(* C1: for every response text in which no valid structured payload can   *)
(* be located or parsed, the parser returns exactly one Observation with   *)
(* start_ts = 0, end_ts = duration and text = the first 500 characters of  *)
(* the raw response.                                                       *)
C1_FallbackWhenNoPayload ==
    (pc = "parsed" /\ ~LocatedPayload(response_text).ok)
        => parsed = [exc |-> "none",
                     obs |-> << Observation(0, duration,
                                            JText(Take(response_text, 500)),
                                            JNull, JNull) >>]

(* C2: whenever the completion call inside transcribe_video succeeded, the *)
(* observation list returned for the batch holds at least one observation. *)
C2_AtLeastOneObservation ==
    (pc = "returned" /\ response_text # NoResponse) => Len(result) >= 1

IsNumberOrAbsent(item, key) ==
    ~HasKey(item, key)
    \/ DictGet(item, key, JNull).t = "num"
    \/ (DictGet(item, key, JNull).t = "str" /\ DictGet(item, key, JNull).s \in NumericStrings)

WellFormedEntry(item) ==
    item.t = "obj" /\ IsNumberOrAbsent(item, "start_ts") /\ IsNumberOrAbsent(item, "end_ts")

EntrySpan(item, dur) ==
    << PyFloat(DictGet(item, "start_ts", JNum(0))).n,
       PyFloat(DictGet(item, "end_ts", JNum(dur))).n >>

ObservationEntries(text) == DictGet(LocatedPayload(text).val, "observations", JArr(<< >>))

HasObservationList(text) ==
    /\ LocatedPayload(text).ok
    /\ ObservationEntries(text).t = "arr"
    /\ \A i \in 1..Len(ObservationEntries(text).a) : ObservationEntries(text).a[i].t = "obj"

(* C3: an entry whose start_ts or end_ts is non-numeric does not abort the *)
(* batch: no exception escapes the parser and every well-formed entry of   *)
(* the same payload is still returned.                                     *)
C3_BadEntryNotFatal ==
    (pc = "parsed" /\ HasObservationList(response_text))
        => /\ parsed.exc = "none"
           /\ \A i \in 1..Len(ObservationEntries(response_text).a) :
                 LET item == ObservationEntries(response_text).a[i]
                 IN  WellFormedEntry(item)
                       => \E j \in 1..Len(parsed.obs) :
                             /\ parsed.obs[j].text = DictGet(item, "text", JStr(""))
                             /\ << parsed.obs[j].start_ts, parsed.obs[j].end_ts >>
                                  = EntrySpan(item, duration)

(* C4: every Observation the parser returns satisfies                      *)
(* 0 <= start_ts <= end_ts <= duration.                                    *)
C4_ObservationWithinDuration ==
    pc = "parsed"
        => \A j \in 1..Len(parsed.obs) :
              /\ 0 <= parsed.obs[j].start_ts
              /\ parsed.obs[j].start_ts <= parsed.obs[j].end_ts
              /\ parsed.obs[j].end_ts <= duration

(* C5: when a valid payload object is followed by trailing text that holds *)
(* a brace (or a second object), the entries of the first balanced object  *)
(* are returned exactly as if the trailing text were absent.               *)
C5_FirstBalancedObjectParsed ==
    LET b == FirstBalancedObject(response_text)
    IN  (/\ pc = "parsed"
         /\ b.found
         /\ JsonLoads(b.group).ok
         /\ HasBrace(SubSeq(response_text, b.last + 1, Len(response_text))))
            => parsed = ParseObservationsFromText(b.group, duration)

----------------------------------------------------------------------------
(* Properties of the time segments and of the overlay vote                 *)

Segmented == pc = "overlay_done" /\ window_records # << >>

(* C6: for every non-empty record sequence and every duration the segments *)
(* are contiguous, the first starts at 0 and the last ends at duration.    *)
C6_SegmentsSpanDuration ==
    Segmented
        => /\ time_segments # << >>
           /\ time_segments[1].start = 0
           /\ time_segments[Len(time_segments)].end = duration
           /\ \A i \in 1..(Len(time_segments) - 1) :
                 time_segments[i].end = time_segments[i + 1].start

SameWindow(r1, r2) ==
    r1.app_name = r2.app_name /\ r1.window_title = r2.window_title

(* The records at which app_name or window_title changes, in order.        *)
ChangePoints(records) ==
    {i \in 1..Len(records) : i = 1 \/ ~SameWindow(records[i], records[i - 1])}

NthChange(records, k) ==
    CHOOSE i \in ChangePoints(records) :
        Cardinality({j \in ChangePoints(records) : j <= i}) = k

(* C7: a new segment starts exactly when app_name or window_title differs  *)
(* from the previous record: one segment per change point, carrying that   *)
(* record's window and starting at its timestamp.                          *)
C7_BoundaryOnEitherField ==
    Segmented
        => /\ Len(time_segments) = Cardinality(ChangePoints(window_records))
           /\ \A k \in 1..Len(time_segments) :
                 LET r == window_records[NthChange(window_records, k)]
                 IN  /\ time_segments[k].app_name = r.app_name
                     /\ time_segments[k].window_title = r.window_title
                     /\ time_segments[k].start = r.timestamp

(* C8: every segment has start < end and no two segments overlap, for any  *)
(* record sequence.                                                        *)
C8_SegmentsWellFormed ==
    Segmented
        => /\ \A i \in 1..Len(time_segments) :
                 time_segments[i].start < time_segments[i].end
           /\ \A i, j \in 1..Len(time_segments) :
                 i < j => \/ time_segments[i].end <= time_segments[j].start
                          \/ time_segments[j].end <= time_segments[i].start

SegmentApps == {time_segments[k].app_name : k \in 1..Len(time_segments)}

RECURSIVE OverlapSum(_, _, _)
OverlapSum(obs, app, k) ==
    IF k = 0 THEN 0
    ELSE OverlapSum(obs, app, k - 1)
         + (IF time_segments[k].app_name = app
            THEN Max(0, Overlap(obs, time_segments[k]))
            ELSE 0)

(* Overlap of an observation with all segments of one application.         *)
TotalOverlap(obs, app) == OverlapSum(obs, app, Len(time_segments))

HasOverlap(obs) == \E app \in SegmentApps : TotalOverlap(obs, app) > 0

(* C9: each observation that overlaps some segment gets the application    *)
(* whose accumulated overlap is the largest; no application with strictly  *)
(* smaller accumulated overlap is selected.                                *)
C9_LargestOverlapSelected ==
    pc = "overlay_done"
        => /\ Len(observations) = Len(obs_in)
           /\ \A i \in 1..Len(obs_in) :
                 HasOverlap(obs_in[i])
                   => \E app \in SegmentApps :
                         /\ observations[i].app_name = JStr(app)
                         /\ \A other \in SegmentApps :
                               TotalOverlap(obs_in[i], other) <= TotalOverlap(obs_in[i], app)

(* An observation whose winner gathers its overlap from two segments while *)
(* another application overlaps it by more than the winner's last segment. *)
C9_Witness ==
    /\ pc = "overlay_done"
    /\ \E i \in 1..Len(obs_in) : \E app, other \in SegmentApps :
          /\ observations[i].app_name = JStr(app)
          /\ Cardinality({k \in 1..Len(time_segments) :
                             /\ time_segments[k].app_name = app
                             /\ Overlap(obs_in[i], time_segments[k]) > 0}) = 2
          /\ TotalOverlap(obs_in[i], other) > 0
          /\ TotalOverlap(obs_in[i], other) < TotalOverlap(obs_in[i], app)
          /\ \E k \in 1..Len(time_segments) :
                /\ time_segments[k].app_name = app
                /\ Overlap(obs_in[i], time_segments[k]) > 0
                /\ Overlap(obs_in[i], time_segments[k]) < TotalOverlap(obs_in[i], other)

TiedApps(obs) ==
    {app \in SegmentApps :
        /\ TotalOverlap(obs, app) > 0
        /\ \A other \in SegmentApps : TotalOverlap(obs, other) <= TotalOverlap(obs, app)}

(* Start of the earliest segment of an application that overlaps obs.      *)
EarliestStart(obs, app) ==
    SetMin({time_segments[k].start : k \in
               {k \in 1..Len(time_segments) :
                   /\ time_segments[k].app_name = app
                   /\ Overlap(obs, time_segments[k]) > 0}})

(* C10: among applications with equal largest accumulated overlap the one  *)
(* whose segment comes earliest in segment-start order is selected, also   *)
(* when the records were supplied out of chronological order.              *)
C10_TieEarliestSegmentStart ==
    pc = "overlay_done"
        => \A i \in 1..Len(obs_in) :
              Cardinality(TiedApps(obs_in[i])) >= 2
                => \E app \in TiedApps(obs_in[i]) :
                      /\ observations[i].app_name = JStr(app)
                      /\ \A other \in TiedApps(obs_in[i]) :
                            EarliestStart(obs_in[i], app) <= EarliestStart(obs_in[i], other)


----------------------------------------------------------------------------
(* C11: _apply_window_records returns no more observations than it was     *)
(* given, and each returned observation's app_name is the app_name of some *)
(* segment or, when its total overlap with all segments is 0, its original *)
(* value.                                                                  *)
C11_NoGrowthAppFromSegmentOrOriginal ==
    pc = "overlay_done"
        => /\ Len(observations) <= Len(obs_in)
           /\ \A i \in 1..Len(observations) :
                 \/ \E app \in SegmentApps : observations[i].app_name = JStr(app)
                 \/ /\ ~HasOverlap(obs_in[i])
                    /\ observations[i].app_name = obs_in[i].app_name

(* Two observations in one call: one takes a segment's application, the    *)
(* other overlaps nothing and keeps the application the model reported.    *)
C11_Witness ==
    /\ pc = "overlay_done"
    /\ time_segments # << >>
    /\ \E i, j \in 1..Len(observations) :
          /\ HasOverlap(obs_in[i])
          /\ observations[i].app_name # obs_in[i].app_name
          /\ \E app \in SegmentApps : observations[i].app_name = JStr(app)
          /\ ~HasOverlap(obs_in[j])
          /\ observations[j].app_name = obs_in[j].app_name
          /\ \A app \in SegmentApps : observations[j].app_name # JStr(app)

(* C12: an observation whose total overlap with every segment is zero (no  *)
(* records, a zero-length observation, an observation outside all          *)
(* segments) keeps its model-reported app_name after the overlay.          *)
C12_ZeroOverlapKeepsApp ==
    pc = "overlay_done"
        => /\ Len(observations) = Len(obs_in)
           /\ \A i \in 1..Len(obs_in) :
                 ~HasOverlap(obs_in[i])
                    => observations[i].app_name = obs_in[i].app_name

(* A zero-length observation strictly inside a segment keeps its app_name. *)
C12_Witness ==
    /\ pc = "overlay_done"
    /\ \E i \in 1..Len(obs_in), k \in 1..Len(time_segments) :
          /\ obs_in[i].start_ts = obs_in[i].end_ts
          /\ time_segments[k].start < obs_in[i].start_ts
          /\ obs_in[i].end_ts < time_segments[k].end
          /\ ~HasOverlap(obs_in[i])
          /\ observations[i].app_name = obs_in[i].app_name

(* C13: the overlay leaves the Observation objects passed in unchanged:    *)
(* their app_name and window_title after the call equal the values before. *)
C13_InputsUnchanged ==
    pc = "overlay_done"
        => /\ Len(obs_arg) = Len(obs_in)
           /\ \A i \in 1..Len(obs_in) :
                 /\ obs_arg[i].app_name = obs_in[i].app_name
                 /\ obs_arg[i].window_title = obs_in[i].window_title

----------------------------------------------------------------------------
(* C19: when frame extraction yields no frame (the video cannot be opened, *)
(* reports zero frames, or no frame can be read), transcribe_video returns *)
(* the empty list and no completion request is issued.                     *)
C19_NoFramesNoRequest ==
    (video.exists /\ ExtractFramesFromVideo(video, TranscribeMaxFrames) = << >>)
        => /\ requests = 0
           /\ raised = "none"
           /\ pc \in {"start", "returned"}
           /\ pc = "returned" => result = << >>

(* A video that opens and reports frames, none of which can be read.       *)
C19_Witness ==
    /\ pc = "returned"
    /\ video.exists /\ video.opened /\ video.total_frames > 0
    /\ frames = << >>
    /\ result = << >>
    /\ requests = 0

(* C20: transcribe_video never propagates an exception to its caller, for  *)
(* every input, a video_path that does not exist included.                 *)
C20_NoExceptionPropagates == raised = "none"

----------------------------------------------------------------------------
(* The entries of the "cards" list of the response, read off the text.     *)
CardPayload == JsonLoads(ReSearchGreedy(response_text).group)

HasCardList ==
    /\ ReSearchGreedy(response_text).found
    /\ CardPayload.ok
    /\ HasKey(CardPayload.val, "cards")
    /\ DictGet(CardPayload.val, "cards", JNull).t = "arr"

CardItems == DictGet(CardPayload.val, "cards", JNull).a

(* What an ISO-8601 timestamp denotes: minutes into 2024-01-01 and the     *)
(* UTC offset, a trailing Z being the offset +00:00.                       *)
IsoInstant(s) ==
    CASE s = "2024-01-01T10:00:00" -> DateTime(600, "")
      [] s = "2024-01-01T11:00:00Z" -> DateTime(660, "+00:00")
      [] s = "2024-01-01T11:00:00+00:00" -> DateTime(660, "+00:00")
      [] s = "2024-01-01T12:00:00" -> DateTime(720, "")
      [] OTHER -> Absent

(* The entry's own timestamp under key, Absent when missing or unparseable. *)
OwnTime(item, key) ==
    IF HasKey(item, key) /\ DictGet(item, key, JNull).t = "str"
    THEN IsoInstant(DictGet(item, key, JNull).s)
    ELSE Absent

(* C14: a card's end_time is the parsed value of the entry's own end_time, *)
(* or None when that is missing or fails to parse, whatever the anchor;    *)
(* its start_time is the entry's parsed start_time, or the anchor when     *)
(* that is missing or unparseable.                                         *)
C14_EndTimeNeverFromAnchor ==
    (pc = "cards_done" /\ parsed_cards.exc = "none" /\ HasCardList)
        => /\ Len(parsed_cards.cards) = Len(CardItems)
           /\ \A i \in 1..Len(CardItems) :
                 /\ parsed_cards.cards[i].end_time =
                       (IF OwnTime(CardItems[i], "end_time") # Absent
                        THEN OwnTime(CardItems[i], "end_time") ELSE JNull)
                 /\ parsed_cards.cards[i].start_time =
                       (IF OwnTime(CardItems[i], "start_time") # Absent
                        THEN OwnTime(CardItems[i], "start_time") ELSE start_time)

(* An anchor is supplied, the entry has its own start_time and no end_time: *)
(* the card starts at the entry's time and has no end.                     *)
C14_Witness ==
    /\ pc = "cards_done" /\ parsed_cards.exc = "none" /\ HasCardList
    /\ start_time # JNull
    /\ \E i \in 1..Len(CardItems) :
          /\ OwnTime(CardItems[i], "start_time") # Absent
          /\ ~HasKey(CardItems[i], "end_time")
          /\ parsed_cards.cards[i].start_time # start_time
          /\ parsed_cards.cards[i].end_time = JNull

RecognizedCategories ==
    {"Programming", "Work", "Learning", "Meeting", "Social", "Entertainment",
     "Rest", "Other"}

(* C15: every card built by _parse_cards_from_text has one of the eight    *)
(* recognized categories; a missing or unrecognized category gives Other.  *)
C15_CategoryRecognized ==
    (pc = "cards_done" /\ parsed_cards.exc = "none" /\ HasCardList)
        => \A i \in 1..Len(parsed_cards.cards) :
              (\/ ~HasKey(CardItems[i], "category")
               \/ DictGet(CardItems[i], "category", JNull).t = "str")
                 => /\ parsed_cards.cards[i].category.t = "str"
                    /\ parsed_cards.cards[i].category.s \in RecognizedCategories

(* C16: _parse_cards_from_text never raises to its caller, and returns the *)
(* empty list when no structured payload can be decoded.                   *)
C16_ParseCardsNeverRaises ==
    pc = "cards_done"
        => /\ parsed_cards.exc = "none"
           /\ (~ReSearchGreedy(response_text).found \/ ~CardPayload.ok)
                 => parsed_cards.cards = << >>

----------------------------------------------------------------------------
(* C17: the continuity context of the request consists of exactly the last *)
(* min(3, n) of the n context cards, in their order, each as its category  *)
(* and title only; with no context cards there is no context section.      *)
C17_ContextIsLastThree ==
    pc \in {"gen_awaiting", "gen_responded", "gen_parsed"}
        => LET n == Len(context_cards)
               k == Min(3, n)
           IN  /\ context_text.header = (n > 0)
               /\ Len(context_text.lines) = k
               /\ \A i \in 1..k :
                     /\ DOMAIN context_text.lines[i] = {"category", "title"}
                     /\ context_text.lines[i].category = context_cards[n - k + i].category
                     /\ context_text.lines[i].title = context_cards[n - k + i].title

(* Four context cards whose first differs from all of the last three.      *)
C17_Witness ==
    /\ pc = "gen_awaiting"
    /\ Len(context_cards) = 4
    /\ \A i \in 2..4 : context_cards[i] # context_cards[1]
    /\ Len(context_text.lines) = 3
    /\ context_text.lines[1].title = context_cards[2].title

CompletionFailed ==
    /\ pc \in {"returned", "gen_returned", "raised"}
    /\ requests > 0
    /\ response_text = NoResponse

(* C18: when the completion call fails, transcribe_video and               *)
(* generate_activity_cards return the empty list without raising, and no   *)
(* invocation issues more than one completion request.                     *)
C18_FailureGivesEmptyNoRetry ==
    /\ requests <= 1
    /\ CompletionFailed => (result = << >> /\ raised = "none" /\ pc # "raised")

(* generate_activity_cards after a failed completion call.                 *)
C18_Witness ==
    /\ pc = "gen_returned"
    /\ requests = 1
    /\ response_text = NoResponse
    /\ result = << >>
    /\ raised = "none"

----------------------------------------------------------------------------
(* round(num / den) of Python for num >= 0, den > 0: to the nearest        *)
(* integer, a tie going to the even one.                                   *)
PyRound(num, den) ==
    LET q == num \div den
        r == num % den
    IN  IF 2 * r < den THEN q
        ELSE IF 2 * r > den THEN q + 1
        ELSE IF q % 2 = 0 THEN q ELSE q + 1

FramesSampled ==
    pc = "frames_done" /\ video.opened /\ video.total_frames > 0

(* C27 as stated: with total_frames > 0 and target k, the i-th request is  *)
(* for frame round(i * total_frames / k), every requested index lies in    *)
(* [0, total_frames), and at most k payloads are returned, exactly k when  *)
(* every requested frame can be read.                                      *)
C27_IndicesRounded ==
    FramesSampled
        => /\ Len(frame_requests) = frame_target
           /\ \A i \in 1..frame_target :
                 /\ frame_requests[i] = PyRound((i - 1) * video.total_frames, frame_target)
                 /\ frame_requests[i] \in 0..(video.total_frames - 1)
           /\ Len(frames) <= frame_target
           /\ (\A i \in 1..frame_target : frame_requests[i] \in video.readable)
                 => Len(frames) = frame_target

(* C27 amended: the i-th request is for frame floor(i * total_frames / k), *)
(* the largest q with q * k <= i * total_frames; the rest as stated.       *)
C27_IndicesFloored ==
    FramesSampled
        => /\ Len(frame_requests) = frame_target
           /\ \A i \in 1..frame_target :
                 /\ frame_requests[i] * frame_target <= (i - 1) * video.total_frames
                 /\ (i - 1) * video.total_frames < (frame_requests[i] + 1) * frame_target
                 /\ frame_requests[i] \in 0..(video.total_frames - 1)
           /\ Len(frames) <= frame_target
           /\ (\A i \in 1..frame_target : frame_requests[i] \in video.readable)
                 => Len(frames) = frame_target

(* Every frame is readable, k payloads come back, and some request is for  *)
(* a frame other than the rounded one.                                     *)
C27_Witness ==
    /\ FramesSampled
    /\ Len(frames) = frame_target
    /\ \E i \in 1..frame_target :
          frame_requests[i] # PyRound((i - 1) * video.total_frames, frame_target)

----------------------------------------------------------------------------
(* C28: in every interleaving of _get_client and close, every client that  *)
(* was created is still referenced by self._client or has been closed.     *)
C28_NoClientLeaked ==
    pc = "client"
        => \A c \in 1..Len(clients) : c = client_ref \/ clients[c] = "closed"

----------------------------------------------------------------------------
(* UpdateDownloader runs                                                   *)

AttemptsInOrder == \A i \in 1..Len(attempts) : attempts[i].mirror = i

StopsAtSuccess ==
    /\ \A i \in 1..Len(attempts) :
          attempts[i].result = "ok" => i = Len(attempts) /\ upd_pc = "done"
    /\ TRUE \in {completions[i] : i \in 1..Len(completions)} =>
          /\ Len(attempts) > 0
          /\ attempts[Len(attempts)].result = "ok"

EveryMirrorIs(results) ==
    /\ Len(attempts) = NumMirrors
    /\ \A i \in 1..Len(attempts) : attempts[i].result \in results

C30_CancelledRunIsSilent ==
    cancel_seen =>
        /\ upd_pc \in {"loop_top", "done"}
        /\ ~tmp_exists
        /\ completions = << >>
        /\ ~HasPendingUpdate

----------------------------------------------------------------------------
(* StatsCollector results                                                  *)

Called(op) == pc = "stats" /\ stats_op.op = op

RangeCards == CardsInRange(storage, stats_op.s, stats_op.e)

Abs(x) == IF x < 0 THEN 0 - x ELSE x

ScoreMinutes(card) == DurationSixths(card) * card.productivity_score

(* tenths is the number of tenths nearest to num / den, den > 0, the even  *)
(* one of two that are equally near                                        *)
NearestTenth(tenths, num, den) ==
    /\ 2 * Abs(10 * num - tenths * den) <= den
    /\ 2 * Abs(10 * num - tenths * den) = den => tenths % 2 = 0

(* C21: get_avg_productivity returns the duration-weighted mean of         *)
(* productivity_score over the cards of the range, 0 when their total      *)
(* duration is 0 or there are none; 60 minutes at 100 and 60 minutes at 0  *)
(* give 50.0.                                                              *)
C21_AvgIsWeightedMean ==
    Called("avg_productivity") =>
        LET total == SumOver(RangeCards, DurationSixths, AnyCard)
            weighted == SumOver(RangeCards, ScoreMinutes, AnyCard)
        IN  IF RangeCards = << >> \/ total = 0 THEN stats_value.n = 0
            ELSE stats_value.n * total = 10 * weighted

(* C21 as the code has it: the mean is taken over the cards of positive    *)
(* duration and rounded to one decimal; 0.0 when no card has a positive    *)
(* duration.                                                               *)
C21_AvgIsRoundedMeanOfPositive ==
    Called("avg_productivity") =>
        LET total == SumOver(RangeCards, DurationSixths, PositiveDuration)
            weighted == SumOver(RangeCards, ScoreMinutes, PositiveDuration)
        IN  IF total = 0 THEN stats_value.n = 0
            ELSE NearestTenth(stats_value.n, weighted, total)

C21_Witness ==
    /\ Called("avg_productivity")
    /\ Len(RangeCards) = 2
    /\ \A i \in 1..2 : DurationSixths(RangeCards[i]) = 360
    /\ {RangeCards[i].productivity_score : i \in 1..2} = {0, 100}
    /\ stats_value.n = 500

(* C22: get_total_duration returns the sum of duration_minutes over the    *)
(* cards of the range, get_deep_work_duration the sum over those with      *)
(* productivity_score >= 80; a card without start or end adds 0.           *)
C22_DurationsAreSums ==
    /\ Called("total_duration") =>
          6 * stats_value.n = SumOver(RangeCards, DurationSixths, AnyCard)
    /\ Called("deep_work_duration") =>
          6 * stats_value.n = SumOver(RangeCards, DurationSixths, DeepWork)

(* whole is num / den without its fraction, den > 0 *)
TruncatedTo(whole, num, den) ==
    /\ Abs(whole * den) <= Abs(num)
    /\ Abs(num) < Abs(whole * den) + den
    /\ whole # 0 => (whole > 0 <=> num > 0)

ScoreAtLeast80(card) == card.productivity_score > 79

(* C22 as the code has it: each sum is cut to a whole number of minutes.   *)
C22_DurationsAreTruncatedSums ==
    /\ Called("total_duration") =>
          TruncatedTo(stats_value.n, SumOver(RangeCards, DurationSixths, AnyCard), 6)
    /\ Called("deep_work_duration") =>
          TruncatedTo(stats_value.n, SumOver(RangeCards, DurationSixths, ScoreAtLeast80), 6)

C22_Witness ==
    /\ Called("deep_work_duration")
    /\ {RangeCards[i].productivity_score : i \in 1..Len(RangeCards)} = {79, 80}
    /\ stats_value.n = 60

DateCards == GetCardsForDate(storage, stats_op.s)

Counted(card) == card.start_time # NoTime /\ card.end_time # NoTime

StartsIn(hour, f(_)) ==
    LET Here(card) == Counted(card) /\ (card.start_time % 8640) \div 360 = hour
    IN  SumOver(DateCards, f, Here)

(* C23: get_hourly_efficiency returns 24 buckets, hours 0..23 in order; a  *)
(* card gives its whole duration and weighted score to the bucket of its   *)
(* start hour only, so the bucket durations add up to the total duration   *)
(* of the cards counted.                                                   *)
C23_BucketsAddUp ==
    Called("hourly_efficiency") =>
        LET list == stats_value.list
        IN  /\ Len(list) = 24
            /\ \A i \in 1..24 : list[i].hour = i - 1
            /\ \A i \in 1..24 : 6 * list[i].duration = 10 * StartsIn(i - 1, DurationSixths)
            /\ 6 * SumSeq([i \in 1..24 |-> list[i].duration])
                  = 10 * SumOver(DateCards, DurationSixths, Counted)

(* C23 as the code has it: a bucket reports its summed duration rounded to *)
(* one decimal, and the mean score of its cards rounded to one decimal, 0  *)
(* when its duration is not positive.                                      *)
C23_BucketsRounded ==
    Called("hourly_efficiency") =>
        LET list == stats_value.list
        IN  /\ Len(list) = 24
            /\ \A i \in 1..24 :
                  /\ list[i].hour = i - 1
                  /\ NearestTenth(list[i].duration, StartsIn(i - 1, DurationSixths), 6)
                  /\ IF StartsIn(i - 1, DurationSixths) > 0
                     THEN NearestTenth(list[i].score, StartsIn(i - 1, ScoreMinutes),
                                       StartsIn(i - 1, DurationSixths))
                     ELSE list[i].score = 0

C23_Witness ==
    /\ Called("hourly_efficiency")
    /\ \E i \in 1..Len(DateCards) :
          /\ Counted(DateCards[i])
          /\ DateCards[i].end_time \div 8640 > DateCards[i].start_time \div 8640
    /\ stats_value.list[24].duration = 600
    /\ stats_value.list[1].duration = 0

AppSeconds(name) ==
    LET Named(item) == item.name = name
        Amount(item) == item.amount
    IN  SumOver(AppDurationDict(RangeCards), Amount, Named)

(* C24: get_top_applications returns at most limit entries in descending   *)
(* order of summed duration; an entry's duration is its summed             *)
(* duration_seconds / 60 and its percentage its share of the summed        *)
(* duration of the entries returned, so that the percentages add up to     *)
(* 100.  Durations and percentages are compared to the nearest tenth.      *)
C24_PercentOfReturned ==
    Called("top_applications") =>
        LET list == stats_value.list
            returned == SumSeq([i \in 1..Len(list) |-> AppSeconds(list[i].name)])
        IN  /\ Len(list) <= stats_op.limit
            /\ \A i \in 1..Len(list) : \A j \in 1..Len(list) :
                  i < j => AppSeconds(list[i].name) >= AppSeconds(list[j].name)
            /\ \A i \in 1..Len(list) :
                  /\ NearestTenth(list[i].duration, AppSeconds(list[i].name), 60)
                  /\ returned > 0 =>
                        NearestTenth(list[i].percentage, 100 * AppSeconds(list[i].name),
                                     returned)

CardTitled(title) == CHOOSE card \in StatCards : card.title = title

StartOrFirst(card) == IF card.start_time = NoTime THEN 0 - 1 ELSE card.start_time

(* C25: get_activities returns one record per card of the inclusive range, *)
(* every day fetched exactly once and nothing when start_date > end_date,  *)
(* in ascending order of start_time with the cards that have none first.   *)
C25_ActivitiesOrdered ==
    Called("activities") =>
        LET list == stats_value.list
        IN  /\ Len(list) = Len(RangeCards)
            /\ {list[i].title : i \in 1..Len(list)}
                  = {RangeCards[i].title : i \in 1..Len(RangeCards)}
            /\ \A i \in 1..Len(list) : \A j \in 1..Len(list) :
                  i < j => StartOrFirst(CardTitled(list[i].title))
                             <= StartOrFirst(CardTitled(list[j].title))
            /\ \A day \in StatDays :
                  Cardinality({i \in 1..Len(fetches) : fetches[i] = day})
                      = IF stats_op.s <= day /\ day <= stats_op.e THEN 1 ELSE 0
            /\ stats_op.s > stats_op.e => list = << >>

C25_Witness ==
    /\ Called("activities")
    /\ stats_op.s < stats_op.e
    /\ Len(stats_value.list) = 2
    /\ stats_value.list[1].start = << >>
    /\ RangeCards[1].start_time # NoTime

============================================================================
